---- MODULE Spec2Model ----
(***************************************************************************)
(* A model of the backup executor of rsync-web (backup.go, scheduler.go,   *)
(* handlers.go): the Run / execute / finishRun life cycle of a backup run, *)
(* the executor's mutex, the persisted history file and the transcript     *)
(* files of the log directory.                                             *)
(***************************************************************************)
EXTENDS Integers, Sequences, FiniteSets, TLC

VARIABLES
    mu,           \* ex.mu: who holds the executor's mutex
    status,       \* ex.status
    current,      \* ex.current: a pointer into runs (0 is nil)
    history,      \* ex.history: run records by value, newest first
    runs,         \* the *BackupRun objects allocated by Run() in this process
    units,        \* one execute goroutine per allocated run: its position and locals
    callers,      \* the goroutines that call Run(): the cron callback and the HTTP handler
    historyFile,  \* <LogDir>/history.json on disk
    logs,         \* the transcript files of LogDir: name -> lines written
    now,          \* the wall clock, in seconds
    accepted,     \* the number of runs accepted since the model started
    restarts,     \* the number of times the process was restarted on the same LogDir
    writeFailed,  \* saveHistory logged "failed to write history" in this process
    cfg,          \* ex.cfg: the configuration the executor was constructed with
    response,     \* what handleTriggerBackup answered to the last request
    arrivals,     \* how many Run() calls found the status running, and how many did not
    lastRead,     \* the last ReadLog call: its argument and what it returned
    view,         \* what Status, Current, History or LastRun returned to its last caller
    sched,        \* the cron scheduler: running, stopping (Stop() was called), stopped
    pruning,      \* the files each pruneOldLogs call in progress has listed for removal
    dash,         \* the dashboardData call in progress: what it has read so far
    applying      \* the ApplyTransferSettings call in progress: its argument and position

\* The executor, its goroutines and the log directory.
exVars == <<mu, status, current, history, runs, units, callers, historyFile, logs,
            now, accepted, restarts, writeFailed>>

\* The calls that take more than one step.
auxVars == <<pruning, dash, applying>>

vars == <<exVars, cfg, response, arrivals, lastRead, view, sched, auxVars>>

-----------------------------------------------------------------------------
(* Bounds of the model. *)

MaxRuns == 2

MaxTime == 1

MaxRestarts == 1

MaxLogFiles == 1

MaxExitCode == 258

\* The longest configured path, in pieces.
MaxPathLen == 3

\* The largest configured bandwidth limit.
MaxBandwidth == 2

\* The most transcripts an earlier process has left in the log directory.
MaxEarlierLogs == 4

\* The largest configured max_log_files of SpecRetention.
MaxCap == 3

\* The longest name given to ReadLog, in pieces.
MaxNameLen == 3

\* The most Run() calls that are counted as having found a run in progress.
MaxBusy == 2

-----------------------------------------------------------------------------
(* Constants of the program. *)

StatusIdle == "idle"

StatusRunning == "running"

StatusSuccess == "success"

StatusWarning == "warning"

StatusFailed == "failed"

HistoryCap == 100

ZeroTime == -1

Callers == {"scheduler", "api"}

\* The exit codes the external process ends with in the runs of Spec.
ExitCodes == {0, 23}

\* Every exit code of SpecExit: ExitCode() is -1 for a process ended by a
\* signal, 0..255 for one that exited; the codes around them as well.
AllExitCodes == (0 - 3)..MaxExitCode

-----------------------------------------------------------------------------
(* Pure functions. *)

\* time.Now().Format("20060102-150405"): the second of the clock, as the
\* fixed-width stamp whose order is the order of the seconds.
RunIDAt(t) == t

LogFileName(id) == <<"backup-", id, ".log">>

\* EndTime.Sub(StartTime).Truncate(time.Second).String(), below one minute.
DurationString(start, end) == ToString(end - start) \o "s"

\* A variant of rsyncExitSummary without the case for 255.
rsyncExitSummaryNo255(code) ==
    CASE code = 1 -> "syntax or usage error"
      [] code = 23 -> "partial transfer - some files could not be transferred"
      [] code = 24 -> "partial transfer - some source files vanished during sync"
      [] OTHER -> "rsync error (exit code " \o ToString(code) \o ")"

\* The texts are the source's, with its dash written in ASCII.
rsyncExitSummary(code) ==
    CASE code = 1 -> "syntax or usage error"
      [] code = 2 -> "protocol incompatibility"
      [] code = 3 -> "errors selecting input/output files"
      [] code = 5 -> "error starting client-server protocol"
      [] code = 10 -> "error in socket I/O"
      [] code = 11 -> "error in file I/O"
      [] code = 12 -> "error in rsync protocol data stream"
      [] code = 14 -> "error in IPC code"
      [] code = 20 -> "interrupted by signal"
      [] code = 23 -> "partial transfer - some files could not be transferred"
      [] code = 24 -> "partial transfer - some source files vanished during sync"
      [] code = 25 -> "max-delete limit reached"
      [] code = 30 -> "timeout in data send/receive"
      [] code = 35 -> "timeout waiting for daemon connection"
      [] code = 255 -> "SSH connection failed - remote host unreachable or auth denied"
      [] OTHER -> "rsync error (exit code " \o ToString(code) \o ")"

\* A variant of isPartialTransfer that knows exit code 23 only.
isPartialTransferOnly23(exitCode) == exitCode = 23

isPartialTransfer(exitCode) == exitCode = 23 \/ exitCode = 24

\* The switch of finishRun: the tier of an exit code.
StatusForExit(exitCode) ==
    IF exitCode = 0 THEN StatusSuccess
    ELSE IF isPartialTransfer(exitCode) THEN StatusWarning
    ELSE StatusFailed

\* The summary execute computes once cmd.Run() has returned.
ExecuteSummary(exitCode, failed) ==
    IF failed THEN rsyncExitSummary(exitCode) ELSE "completed successfully"

NewRun(id, start) ==
    [ID |-> id, StartTime |-> start, EndTime |-> ZeroTime, Duration |-> "",
     Status |-> StatusRunning, ExitCode |-> 0, LogFile |-> LogFileName(id),
     Summary |-> ""]

\* A variant of Stamped without the switch: run.Status stays as Run() set it.
StampedKeepsStatus(run, end, exitCode, summary) ==
    [run EXCEPT !.EndTime = end,
                !.Duration = DurationString(run.StartTime, end),
                !.ExitCode = exitCode,
                !.Summary = summary]

\* The fields finishRun stamps on *run.
Stamped(run, end, exitCode, summary) ==
    [run EXCEPT !.EndTime = end,
                !.Duration = DurationString(run.StartTime, end),
                !.ExitCode = exitCode,
                !.Summary = summary,
                !.Status = StatusForExit(exitCode)]

Take(s, n) == IF Len(s) > n THEN SubSeq(s, 1, n) ELSE s

\* A variant of Prepend that puts the run behind the history.
PrependBehind(run, hist) == Take(hist \o <<run>>, HistoryCap)

\* A variant of Prepend that cuts to the last 100: ex.history[len-100:].
PrependKeepsTail(run, hist) ==
    LET all == <<run>> \o hist
    IN IF Len(all) > HistoryCap
       THEN SubSeq(all, Len(all) - HistoryCap + 1, Len(all))
       ELSE all

\* append([]BackupRun{*run}, ex.history...) cut to the first 100.
Prepend(run, hist) == Take(<<run>> \o hist, HistoryCap)

-----------------------------------------------------------------------------
(* The configuration and the rsync command line.  A text is the sequence of   *)
(* its pieces, whose concatenation is the string: a configured path is split  *)
(* at every "/", which is a piece of its own.                                 *)

RECURSIVE TrimRight(_, _)
\* strings.TrimRight(s, ch) for a cutset of one character.
TrimRight(s, ch) ==
    IF s # <<>> /\ s[Len(s)] = ch
    THEN TrimRight(SubSeq(s, 1, Len(s) - 1), ch)
    ELSE s

\* A variant of SourceArg that appends the separator without trimming first.
SourceArgAppends(c) ==
    IF c.SourceIsFile THEN c.SourcePath ELSE c.SourcePath \o <<"/">>

\* The source argument: the path as it is for a single file, the path with
\* one trailing separator for a directory.
SourceArg(c) ==
    IF c.SourceIsFile
    THEN c.SourcePath
    ELSE TrimRight(c.SourcePath, "/") \o <<"/">>

\* A variant of DestArg that trims nothing.
DestArgUntrimmed(c) == c.RemoteHost \o <<":">> \o c.RemotePath \o <<"/">>

\* fmt.Sprintf("%s:%s/", RemoteHost, strings.TrimRight(RemotePath, "/"))
DestArg(c) == c.RemoteHost \o <<":">> \o TrimRight(c.RemotePath, "/") \o <<"/">>

\* The argument of -e.
SshCommand(c) ==
    <<"ssh -i ">> \o c.SSHKeyPath
        \o <<" -o StrictHostKeyChecking=no -o UserKnownHostsFile=/dev/null">>

BwLimitArg(n) == <<"--bwlimit=", ToString(n)>>

\* A variant of buildRsyncArgs that limits the bandwidth for every limit but 0.
buildRsyncArgsLimitNonZero(c) ==
    << <<"-avz">>, <<"--delete">>, <<"--partial">>, <<"--stats">>, <<"-e">>, SshCommand(c) >>
        \o (IF c.BandwidthLimit # 0 THEN <<BwLimitArg(c.BandwidthLimit)>> ELSE <<>>)
        \o <<SourceArg(c), DestArg(c)>>

buildRsyncArgs(c) ==
    << <<"-avz">>, <<"--delete">>, <<"--partial">>, <<"--stats">>, <<"-e">>, SshCommand(c) >>
        \o (IF c.BandwidthLimit > 0 THEN <<BwLimitArg(c.BandwidthLimit)>> ELSE <<>>)
        \o <<SourceArg(c), DestArg(c)>>

\* The configuration of Spec: a directory source, no bandwidth limit.
BaseCfg ==
    [SourcePath |-> <<"/", "src">>, SourceIsFile |-> FALSE,
     RemoteHost |-> <<"user@h">>, RemotePath |-> <<"/", "backups">>,
     SSHKeyPath |-> <<"/", "key">>, BandwidthLimit |-> 0,
     MaxLogFiles |-> MaxLogFiles]

RECURSIVE Texts(_, _)
\* The texts of at most n pieces.
Texts(pieces, n) ==
    IF n = 0 THEN {<<>>}
    ELSE LET shorter == Texts(pieces, n - 1)
         IN shorter \cup {Append(t, p) : t \in shorter, p \in pieces}

\* The paths a configuration file can name: empty, with and without leading,
\* trailing and doubled separators.
Paths == Texts({"/", "a"}, MaxPathLen)

\* The configurations of SpecArgs: max_log_files and bandwidth_limit are not
\* validated, a limit can be negative.
ArgCfgs ==
    {[BaseCfg EXCEPT !.SourcePath = sp, !.SourceIsFile = f, !.RemotePath = rp,
                     !.BandwidthLimit = bw] :
        sp \in Paths, f \in BOOLEAN, rp \in Paths, bw \in (0 - 1)..MaxBandwidth}

-----------------------------------------------------------------------------
(* The history file: encoding/json of []BackupRun. *)

\* What os.ReadFile and json.Unmarshal find: no file, a file that does not
\* parse, or a JSON array of objects.
Absent == [kind |-> "absent", doc |-> <<>>]

Malformed == [kind |-> "malformed", doc |-> <<>>]

JsonFile(doc) == [kind |-> "json", doc |-> doc]

\* A JSON object of a BackupRun: the omitempty string fields are left out
\* when empty (omitempty has no effect on the struct-typed end_time).
OmitEmpty(key, value) == IF value = "" THEN <<>> ELSE (key :> value)

MarshalRun(r) ==
    [id |-> r.ID, start_time |-> r.StartTime, end_time |-> r.EndTime,
     status |-> r.Status, exit_code |-> r.ExitCode, log_file |-> r.LogFile]
    @@ OmitEmpty("duration", r.Duration) @@ OmitEmpty("summary", r.Summary)

Marshal(hist) == JsonFile([i \in 1..Len(hist) |-> MarshalRun(hist[i])])

Field(obj, key, zero) == IF key \in DOMAIN obj THEN obj[key] ELSE zero

UnmarshalRun(obj) ==
    [ID |-> obj.id, StartTime |-> obj.start_time, EndTime |-> obj.end_time,
     Duration |-> Field(obj, "duration", ""), Status |-> obj.status,
     ExitCode |-> obj.exit_code, LogFile |-> obj.log_file,
     Summary |-> Field(obj, "summary", "")]

Unmarshal(file) == [i \in 1..Len(file.doc) |-> UnmarshalRun(file.doc[i])]

\* A variant of LoadHistory that takes the status of the last (oldest) entry.
LoadHistoryStatusOfOldest(file) ==
    IF file.kind # "json"
    THEN [history |-> <<>>, status |-> StatusIdle]
    ELSE LET loaded == Unmarshal(file)
         IN [history |-> loaded,
             status |-> IF Len(loaded) > 0 THEN loaded[Len(loaded)].Status
                        ELSE StatusIdle]

\* A variant of LoadHistory that starts as failed on a file that does not parse.
LoadHistoryFailedOnMalformed(file) ==
    IF file.kind = "absent" THEN [history |-> <<>>, status |-> StatusIdle]
    ELSE IF file.kind = "malformed" THEN [history |-> <<>>, status |-> StatusFailed]
    ELSE LET loaded == Unmarshal(file)
         IN [history |-> loaded,
             status |-> IF Len(loaded) > 0 THEN loaded[1].Status ELSE StatusIdle]

\* loadHistory on a fresh executor (status idle, no history): the history and
\* the status it leaves.
LoadHistory(file) ==
    IF file.kind # "json"
    THEN [history |-> <<>>, status |-> StatusIdle]
    ELSE LET loaded == Unmarshal(file)
         IN [history |-> loaded,
             status |-> IF Len(loaded) > 0 THEN loaded[1].Status ELSE StatusIdle]

\* History files found on disk at the first start.  A run written by an
\* earlier process: it started and ended before time 0.
EarlierRun(i, exitCode) ==
    Stamped(NewRun(0 - i, 0 - i), 0 - i, exitCode,
            ExecuteSummary(exitCode, exitCode # 0))

ProgramFile(n, exitCode) == Marshal([i \in 1..n |-> EarlierRun(i, exitCode)])

\* The entries TestHistory_CappedAt100 writes: no duration, no summary.
TestEntry(i) ==
    [id |-> 0 - i, start_time |-> 0 - i, end_time |-> 0 - i,
     status |-> StatusSuccess, exit_code |-> 0, log_file |-> LogFileName(0 - i)]

TestFile(n) == JsonFile([i \in 1..n |-> TestEntry(i)])

\* No file, a file that does not parse, a file with one earlier run.
InitFiles == {Absent, Malformed, ProgramFile(1, 23)}

\* Files at the cap of the history: one entry below it, and the 105 entries of
\* TestHistory_CappedAt100.
CapFiles == {ProgramFile(HistoryCap - 1, 23), TestFile(HistoryCap + 5)}

-----------------------------------------------------------------------------
(* The mutex. *)

Free == [unit |-> 0]

HeldByUnit(u) == [unit |-> u]

IdleCaller == [pc |-> "idle", run |-> 0]

\* An execute goroutine: where it is, its err, exitCode and summary variables,
\* and whether pruneOldLogs is on its path.
NewUnit == [pc |-> "new", err |-> "nil", exitCode |-> 0, summary |-> "", prune |-> TRUE]

DoneUnit == [pc |-> "done", err |-> "nil", exitCode |-> 0, summary |-> "", prune |-> TRUE]

\* NewBackupExecutor: the executor state after construction on a log directory.
Constructed(file) ==
    /\ mu' = Free
    /\ status' = LoadHistory(file).status
    /\ history' = LoadHistory(file).history
    /\ current' = 0
    /\ runs' = <<>>
    /\ units' = <<>>
    /\ callers' = [c \in Callers |-> IdleCaller]
    /\ writeFailed' = FALSE

\* A log directory without transcripts.
NoLogs == <<>>

\* No request was answered yet; no log was read yet.
NoResponse == [method |-> "", code |-> 0]

NoPath == [up |-> 0 - 1, below |-> <<>>]

NoRead == [name |-> <<>>, err |-> FALSE, read |-> NoPath]

\* No reader has returned yet.  A returned value is the status, or the run
\* records the caller holds; shares tells whether that is memory of its own
\* ("copy"), the object ex.current pointed to ("current", at its index in
\* runs), or the array of ex.history ("history", at the number of arrays that
\* finishRun had allocated).
NoView == [call |-> "", status |-> "", runs |-> <<>>, shares |-> "copy", at |-> 0]

\* No pruneOldLogs call has listed files.
NoPruning == <<>>

\* No dashboardData call is in progress.  last and current hold the record
\* when the pointer that was returned is not nil.
NoDash == [pc |-> "idle", last |-> <<>>, history |-> <<>>, current |-> <<>>, status |-> ""]

\* TransferSettings, and GetTransferSettings of a configuration.
GetTransferSettings(c) ==
    [SourcePath |-> c.SourcePath, SourceIsFile |-> c.SourceIsFile,
     RemoteHost |-> c.RemoteHost, RemotePath |-> c.RemotePath,
     SSHKeyPath |-> c.SSHKeyPath]

\* No ApplyTransferSettings call is in progress; done counts the fields the
\* call has assigned.
NoApply == [done |-> 0, s |-> GetTransferSettings(BaseCfg)]

\* The first start of the process, with one of cfgs, on a log directory that
\* holds one of files.
StartOn(files, cfgs, dirs) ==
    /\ historyFile \in files
    /\ logs \in dirs
    /\ cfg \in cfgs
    /\ response = NoResponse
    /\ arrivals = [idle |-> 0, busy |-> 0]
    /\ lastRead = NoRead
    /\ view = NoView
    /\ sched = "running"
    /\ pruning = NoPruning
    /\ dash = NoDash
    /\ applying = NoApply
    /\ mu = Free
    /\ status = LoadHistory(historyFile).status
    /\ history = LoadHistory(historyFile).history
    /\ current = 0
    /\ runs = <<>>
    /\ units = <<>>
    /\ callers = [c \in Callers |-> IdleCaller]
    /\ writeFailed = FALSE
    /\ now = 0
    /\ accepted = 0
    /\ restarts = 0

Init == StartOn(InitFiles, {BaseCfg}, {NoLogs})

InitCap == StartOn(CapFiles, {BaseCfg}, {NoLogs})

-----------------------------------------------------------------------------
(* The wall clock. *)

Tick ==
    /\ now < MaxTime
    /\ now' = now + 1
    /\ UNCHANGED <<mu, status, current, history, runs, units, callers,
                   historyFile, logs, accepted, restarts, writeFailed>>
    /\ UNCHANGED <<cfg, response, arrivals, lastRead, view, sched, auxVars>>

-----------------------------------------------------------------------------
(* BackupExecutor.Run, called by the cron callback and by handleTriggerBackup. *)

\* A variant of RunBusy without the return: the run is started all the same.
RunBusyFallsThrough(c) ==
    /\ callers[c].pc = "idle"
    /\ mu = Free
    /\ status = StatusRunning
    /\ accepted < MaxRuns
    /\ runs' = Append(runs, NewRun(RunIDAt(now), now))
    /\ units' = Append(units, NewUnit)
    /\ current' = Len(runs) + 1
    /\ callers' = [callers EXCEPT ![c].pc = "spawn", ![c].run = Len(runs) + 1]
    /\ accepted' = accepted + 1
    /\ UNCHANGED <<mu, status, history, historyFile, logs, now, restarts, writeFailed>>
    /\ UNCHANGED <<cfg, lastRead, view, sched, auxVars>>

\* Lines 96-100: the mutex is taken, ex.status is StatusRunning, the mutex is
\* released and the "backup already in progress" error is returned.
RunBusy(c) ==
    /\ callers[c].pc = "idle"
    /\ mu = Free
    /\ status = StatusRunning
    /\ UNCHANGED <<exVars, cfg, lastRead, view, sched, auxVars>>

\* A variant of RunAccept that does not look at ex.status.
RunAcceptUnchecked(c) ==
    /\ callers[c].pc = "idle"
    /\ mu = Free
    /\ accepted < MaxRuns
    /\ status' = StatusRunning
    /\ runs' = Append(runs, NewRun(RunIDAt(now), now))
    /\ units' = Append(units, NewUnit)
    /\ current' = Len(runs) + 1
    /\ callers' = [callers EXCEPT ![c].pc = "spawn", ![c].run = Len(runs) + 1]
    /\ accepted' = accepted + 1
    /\ UNCHANGED <<mu, history, historyFile, logs, now, restarts, writeFailed>>
    /\ UNCHANGED <<cfg, lastRead, view, sched, auxVars>>

\* Lines 96-114, one critical section: ex.status = StatusRunning, the run is
\* allocated with the id and start time of the clock, ex.current = run.
RunAccept(c) ==
    /\ callers[c].pc = "idle"
    /\ mu = Free
    /\ status # StatusRunning
    /\ accepted < MaxRuns
    /\ status' = StatusRunning
    /\ runs' = Append(runs, NewRun(RunIDAt(now), now))
    /\ units' = Append(units, NewUnit)
    /\ current' = Len(runs) + 1
    /\ callers' = [callers EXCEPT ![c].pc = "spawn", ![c].run = Len(runs) + 1]
    /\ accepted' = accepted + 1
    /\ UNCHANGED <<mu, history, historyFile, logs, now, restarts, writeFailed>>
    /\ UNCHANGED <<cfg, lastRead, view, sched, auxVars>>

\* A variant of RunSpawn without the go statement: execute runs on the
\* caller's goroutine and Run returns when it has returned.
RunSpawnInline(c) ==
    /\ \/ /\ callers[c].pc = "spawn"
          /\ units' = [units EXCEPT ![callers[c].run].pc = "open"]
          /\ callers' = [callers EXCEPT ![c].pc = "in execute"]
       \/ /\ callers[c].pc = "in execute"
          /\ units[callers[c].run].pc = "done"
          /\ units' = units
          /\ callers' = [callers EXCEPT ![c] = IdleCaller]
    /\ UNCHANGED <<mu, status, current, history, runs, historyFile, logs,
                   now, accepted, restarts, writeFailed>>
    /\ UNCHANGED <<cfg, lastRead, view, sched, auxVars>>

\* go ex.execute(run, logPath); return nil: the goroutine is started and Run
\* returns to its caller.
RunSpawn(c) ==
    /\ callers[c].pc = "spawn"
    /\ units' = [units EXCEPT ![callers[c].run].pc = "open"]
    /\ callers' = [callers EXCEPT ![c] = IdleCaller]
    /\ UNCHANGED <<mu, status, current, history, runs, historyFile, logs,
                   now, accepted, restarts, writeFailed>>
    /\ UNCHANGED <<cfg, lastRead, view, sched, auxVars>>

-----------------------------------------------------------------------------
(* The callers of Run(): Server.handleTriggerBackup and the cron callback of  *)
(* NewScheduler.                                                              *)

Methods == {"GET", "POST", "DELETE"}

Response(method, code) == [method |-> method, code |-> code]

\* One more Run() call that found the status running (busy) or not (idle).
Arrived(kind) ==
    /\ kind = "busy" => arrivals.busy < MaxBusy
    /\ arrivals' = [arrivals EXCEPT ![kind] = @ + 1]

\* A variant of handleTriggerBackup that does not look at the method.
handleTriggerBackupAnyMethod(method) ==
    \/ /\ RunBusy("api")
       /\ Arrived("busy")
       /\ response' = Response(method, 409)
    \/ /\ RunAccept("api")
       /\ Arrived("idle")
       /\ response' = response

\* A request to /api/backup: 405 for any method but POST; for a POST Run() is
\* called, and its error is answered with 409.
handleTriggerBackup(method) ==
    \/ /\ method # "POST"
       /\ callers["api"].pc = "idle"
       /\ response' = Response(method, 405)
       /\ UNCHANGED <<exVars, cfg, arrivals, lastRead, view, sched, auxVars>>
    \/ /\ method = "POST"
       /\ RunBusy("api")
       /\ Arrived("busy")
       /\ response' = Response(method, 409)
    \/ /\ method = "POST"
       /\ RunAccept("api")
       /\ Arrived("idle")
       /\ response' = response

\* Run() has returned nil: the handler redirects to the dashboard.
handleTriggerBackupReturn ==
    /\ RunSpawn("api")
    /\ response' = Response("POST", 303)
    /\ arrivals' = arrivals

\* A variant of the cron callback that starts the backup all the same when
\* Run() finds one in progress.
cronCallbackForces ==
    /\ sched = "running"
    /\ response' = response
    /\ \/ RunBusyFallsThrough("scheduler") /\ Arrived("busy")
       \/ RunAccept("scheduler") /\ Arrived("idle")

\* A variant of the cron callback that is still called once the scheduler
\* was told to stop.
cronCallbackIgnoresStop ==
    /\ response' = response
    /\ \/ RunBusy("scheduler") /\ Arrived("busy")
       \/ RunAccept("scheduler") /\ Arrived("idle")

\* The cron callback: Run() is called; its error is logged and the tick is
\* skipped.
cronCallback ==
    /\ sched = "running"
    /\ response' = response
    /\ \/ RunBusy("scheduler") /\ Arrived("busy")
       \/ RunAccept("scheduler") /\ Arrived("idle")

cronCallbackReturn ==
    /\ RunSpawn("scheduler")
    /\ UNCHANGED <<response, arrivals>>

\* Scheduler.Stop, called by main at shutdown.  s.cron.Stop() ends the loop
\* that starts the callback at its times and returns a context.
SchedulerStop ==
    /\ sched = "running"
    /\ sched' = "stopping"
    /\ UNCHANGED <<exVars, cfg, response, arrivals, lastRead, view, auxVars>>

\* <-ctx.Done(): the context is done when no callback is in progress; Stop
\* returns.
SchedulerStopReturn ==
    /\ sched = "stopping"
    /\ callers["scheduler"].pc = "idle"
    /\ sched' = "stopped"
    /\ UNCHANGED <<exVars, cfg, response, arrivals, lastRead, view, auxVars>>

-----------------------------------------------------------------------------
(* BackupExecutor.execute: the goroutine of one run. *)

UnitIds == 1..Len(units)

\* A write through the open transcript: it shows in LogDir while the file is
\* still linked there.
WriteLog(files, name, line) ==
    IF name \in DOMAIN files
    THEN [files EXCEPT ![name] = Append(@, line)]
    ELSE files

\* "=== Backup started at ... ===" and "Command: rsync <args>".
StartBanner(args) == [line |-> "started", code |-> 0, args |-> args]

\* "=== Backup finished at ... (exit code: N) ===".
FinishBanner(exitCode) == [line |-> "finished", code |-> exitCode, args |-> <<>>]

\* A variant of ExecOpenLog that takes the mutex before it starts the external
\* process, for finishRun to release.
ExecOpenLogHoldsLock(u) ==
    /\ units[u].pc = "open"
    /\ mu = Free
    /\ \E created \in BOOLEAN :
        IF created
        THEN /\ logs' = WriteLog((runs[u].LogFile :> <<>>) @@ logs, runs[u].LogFile,
                                 StartBanner(buildRsyncArgs(cfg)))
             /\ units' = [units EXCEPT ![u].pc = "wait"]
             /\ mu' = HeldByUnit(u)
        ELSE /\ logs' = logs
             /\ units' = [units EXCEPT ![u] =
                    [pc |-> "finish", err |-> "create", exitCode |-> 1,
                     summary |-> "failed to create log file", prune |-> FALSE]]
             /\ mu' = mu
    /\ UNCHANGED <<status, current, history, runs, callers, historyFile,
                   now, accepted, restarts, writeFailed>>
    /\ UNCHANGED <<cfg, response, arrivals, lastRead, view, sched, auxVars>>

\* A variant of ExecOpenLog that returns without finishRun when the transcript
\* cannot be created.
ExecOpenLogGivesUp(u) ==
    /\ units[u].pc = "open"
    /\ \E created \in BOOLEAN :
        IF created
        THEN /\ logs' = WriteLog((runs[u].LogFile :> <<>>) @@ logs, runs[u].LogFile,
                                 StartBanner(buildRsyncArgs(cfg)))
             /\ units' = [units EXCEPT ![u].pc = "wait"]
        ELSE /\ logs' = logs
             /\ units' = [units EXCEPT ![u] = DoneUnit]
    /\ UNCHANGED <<mu, status, current, history, runs, callers, historyFile,
                   now, accepted, restarts, writeFailed>>
    /\ UNCHANGED <<cfg, response, arrivals, lastRead, view, sched, auxVars>>

\* A variant of ExecOpenLog that gives finishRun exit code 0 when the
\* transcript cannot be created.
ExecOpenLogExitZero(u) ==
    /\ units[u].pc = "open"
    /\ \E created \in BOOLEAN :
        IF created
        THEN /\ logs' = WriteLog((runs[u].LogFile :> <<>>) @@ logs, runs[u].LogFile,
                                 StartBanner(buildRsyncArgs(cfg)))
             /\ units' = [units EXCEPT ![u].pc = "wait"]
        ELSE /\ logs' = logs
             /\ units' = [units EXCEPT ![u] =
                    [pc |-> "finish", err |-> "create", exitCode |-> 0,
                     summary |-> "failed to create log file", prune |-> FALSE]]
    /\ UNCHANGED <<mu, status, current, history, runs, callers, historyFile,
                   now, accepted, restarts, writeFailed>>
    /\ UNCHANGED <<cfg, response, arrivals, lastRead, view, sched, auxVars>>

\* os.MkdirAll (its failure is only logged) and os.Create: either the
\* transcript is created empty, the start banner is written and cmd.Run()
\* starts the external process, or execute is left with
\* finishRun(run, 1, "failed to create log file") to call.
ExecOpenLog(u) ==
    /\ units[u].pc = "open"
    /\ \E created \in BOOLEAN :
        IF created
        THEN /\ logs' = WriteLog((runs[u].LogFile :> <<>>) @@ logs, runs[u].LogFile,
                                 StartBanner(buildRsyncArgs(cfg)))
             /\ units' = [units EXCEPT ![u].pc = "wait"]
        ELSE /\ logs' = logs
             /\ units' = [units EXCEPT ![u] =
                    [pc |-> "finish", err |-> "create", exitCode |-> 1,
                     summary |-> "failed to create log file", prune |-> FALSE]]
    /\ UNCHANGED <<mu, status, current, history, runs, callers, historyFile,
                   now, accepted, restarts, writeFailed>>
    /\ UNCHANGED <<cfg, response, arrivals, lastRead, view, sched, auxVars>>

\* What cmd.Run() can return: the process exited with a code (nil error for 0,
\* *exec.ExitError otherwise), or an error that is no exit status.
ProcOutcomes(codes) ==
    {[exited |-> TRUE, code |-> c] : c \in codes} \cup {[exited |-> FALSE, code |-> 0]}

OutcomeFailed(o) == ~o.exited \/ o.code # 0

\* The err of cmd.Run(): nil, an *exec.ExitError, or another error.
OutcomeErr(o) == IF ~o.exited THEN "other" ELSE IF o.code = 0 THEN "nil" ELSE "ExitError"

\* A variant of OutcomeExitCode without the else branch: exitCode stays 0 when
\* the error is no *exec.ExitError.
OutcomeExitCodeOfExitOnly(o) == IF ~o.exited THEN 0 ELSE o.code

\* exitCode after the if: 0, exitErr.ExitCode(), or 1.
OutcomeExitCode(o) == IF ~o.exited THEN 1 ELSE o.code

\* A variant of ProcExit whose finish banner carries the exit status of the
\* process and not the exitCode handed to finishRun.
ProcExitBannerOfStatus(u, codes) ==
    /\ units[u].pc = "wait"
    /\ \E o \in ProcOutcomes(codes) :
        /\ units' = [units EXCEPT ![u].pc = "finish",
                                  ![u].err = OutcomeErr(o),
                                  ![u].exitCode = OutcomeExitCode(o),
                                  ![u].summary = ExecuteSummary(OutcomeExitCode(o),
                                                                OutcomeFailed(o))]
        /\ logs' = WriteLog(logs, runs[u].LogFile, FinishBanner(o.code))
    /\ UNCHANGED <<mu, status, current, history, runs, callers, historyFile,
                   now, accepted, restarts, writeFailed>>
    /\ UNCHANGED <<cfg, response, arrivals, lastRead, view, sched, auxVars>>

\* cmd.Run() returns; exit code and summary; the finish banner.
ProcExit(u, codes) ==
    /\ units[u].pc = "wait"
    /\ \E o \in ProcOutcomes(codes) :
        /\ units' = [units EXCEPT ![u].pc = "finish",
                                  ![u].err = OutcomeErr(o),
                                  ![u].exitCode = OutcomeExitCode(o),
                                  ![u].summary = ExecuteSummary(OutcomeExitCode(o),
                                                                OutcomeFailed(o))]
        /\ logs' = WriteLog(logs, runs[u].LogFile,
                            FinishBanner(OutcomeExitCode(o)))
    /\ UNCHANGED <<mu, status, current, history, runs, callers, historyFile,
                   now, accepted, restarts, writeFailed>>
    /\ UNCHANGED <<cfg, response, arrivals, lastRead, view, sched, auxVars>>

ExecProcExit(u) == ProcExit(u, ExitCodes)

ExecProcExitAny(u) == ProcExit(u, AllExitCodes)

-----------------------------------------------------------------------------
(* BackupExecutor.finishRun, called by execute. *)

\* A variant of FinishStamp without ex.mu.Lock().
FinishStampUnlocked(u) ==
    /\ units[u].pc = "finish"
    /\ runs' = [runs EXCEPT ![u] = Stamped(@, now, units[u].exitCode, units[u].summary)]
    /\ status' = StatusForExit(units[u].exitCode)
    /\ units' = [units EXCEPT ![u].pc = "publish"]
    /\ UNCHANGED <<mu, current, history, callers, historyFile, logs,
                   now, accepted, restarts, writeFailed>>
    /\ UNCHANGED <<cfg, response, arrivals, lastRead, view, sched, auxVars>>

\* A variant of FinishStamp whose switch sets run.Status only.
FinishStampKeepsStatus(u) ==
    /\ units[u].pc = "finish"
    /\ mu = Free
    /\ mu' = HeldByUnit(u)
    /\ runs' = [runs EXCEPT ![u] = Stamped(@, now, units[u].exitCode, units[u].summary)]
    /\ units' = [units EXCEPT ![u].pc = "publish"]
    /\ UNCHANGED <<status, current, history, callers, historyFile, logs,
                   now, accepted, restarts, writeFailed>>
    /\ UNCHANGED <<cfg, response, arrivals, lastRead, view, sched, auxVars>>

\* ex.mu.Lock(); run.EndTime .. run.Summary, and the switch that sets
\* run.Status and ex.status
FinishStamp(u) ==
    /\ units[u].pc = "finish"
    /\ mu = Free
    /\ mu' = HeldByUnit(u)
    /\ runs' = [runs EXCEPT ![u] = Stamped(@, now, units[u].exitCode, units[u].summary)]
    /\ status' = StatusForExit(units[u].exitCode)
    /\ units' = [units EXCEPT ![u].pc = "publish"]
    /\ UNCHANGED <<current, history, callers, historyFile, logs,
                   now, accepted, restarts, writeFailed>>
    /\ UNCHANGED <<cfg, response, arrivals, lastRead, view, sched, auxVars>>

\* A variant of FinishPublish that leaves ex.current set.
FinishPublishKeepsCurrent(u) ==
    /\ units[u].pc = "publish"
    /\ history' = Prepend(runs[u], history)
    /\ units' = [units EXCEPT ![u].pc = "save"]
    /\ UNCHANGED <<mu, status, current, runs, callers, historyFile, logs,
                   now, accepted, restarts, writeFailed>>
    /\ UNCHANGED <<cfg, response, arrivals, lastRead, view, sched, auxVars>>

\* ex.current = nil; prepend to ex.history, cut to 100
FinishPublish(u) ==
    /\ units[u].pc = "publish"
    /\ current' = 0
    /\ history' = Prepend(runs[u], history)
    /\ units' = [units EXCEPT ![u].pc = "save"]
    /\ UNCHANGED <<mu, status, runs, callers, historyFile, logs,
                   now, accepted, restarts, writeFailed>>
    /\ UNCHANGED <<cfg, response, arrivals, lastRead, view, sched, auxVars>>

\* os.WriteFile(history.json): the file is replaced, or the write fails (the
\* file cannot be opened) and leaves the old file.
WriteOutcomes == {"written", "failed"}

\* A variant of FinishSave that takes the record back out of ex.history when
\* the file cannot be written.
FinishSaveRollsBack(u) ==
    /\ units[u].pc = "save"
    /\ \E w \in WriteOutcomes :
        /\ historyFile' = IF w = "written" THEN Marshal(history) ELSE historyFile
        /\ history' = IF w = "written" THEN history ELSE Tail(history)
        /\ writeFailed' = (writeFailed \/ w # "written")
    /\ mu' = Free
    /\ units' = [units EXCEPT ![u] = IF @.prune THEN [@ EXCEPT !.pc = "prune"] ELSE DoneUnit]
    /\ UNCHANGED <<status, current, runs, callers, logs, now, accepted, restarts>>
    /\ UNCHANGED <<cfg, response, arrivals, lastRead, view, sched, auxVars>>

\* ex.saveHistory() and the deferred ex.mu.Unlock(); execute goes on to
\* pruneOldLogs, or returns on the setup-failure path.
FinishSave(u) ==
    /\ units[u].pc = "save"
    /\ \E w \in WriteOutcomes :
        /\ historyFile' = IF w = "written" THEN Marshal(history) ELSE historyFile
        /\ writeFailed' = (writeFailed \/ w # "written")
    /\ mu' = Free
    /\ units' = [units EXCEPT ![u] = IF @.prune THEN [@ EXCEPT !.pc = "prune"] ELSE DoneUnit]
    /\ UNCHANGED <<status, current, history, runs, callers, logs,
                   now, accepted, restarts>>
    /\ UNCHANGED <<cfg, response, arrivals, lastRead, view, sched, auxVars>>

-----------------------------------------------------------------------------
(* BackupExecutor.pruneOldLogs. *)

RECURSIVE SortByName(_)
\* sort.Slice by name ascending: the names differ in their time stamp only.
SortByName(names) ==
    IF names = {} THEN <<>>
    ELSE LET first == CHOOSE f \in names : \A g \in names : f[2] <= g[2]
         IN <<first>> \o SortByName(names \ {first})

\* A variant of ToRemove that takes the excess from the end of the sorted list.
ToRemoveNewest(names, maxLogFiles) ==
    IF Cardinality(names) <= maxLogFiles THEN {}
    ELSE LET sorted == SortByName(names)
         IN {sorted[i] : i \in (maxLogFiles + 1)..Len(sorted)}

\* A variant of ToRemove that takes one file more than the excess.
ToRemoveOneMore(names, maxLogFiles) ==
    IF Cardinality(names) <= maxLogFiles THEN {}
    ELSE LET sorted == SortByName(names)
         IN {sorted[i] : i \in 1..(Len(sorted) - maxLogFiles + 1) \cap 1..Len(sorted)}

\* A variant of ToRemove that leaves one file more than max_log_files.
ToRemoveKeepsOneMore(names, maxLogFiles) ==
    IF Cardinality(names) <= maxLogFiles + 1 THEN {}
    ELSE LET sorted == SortByName(names)
         IN {sorted[i] : i \in 1..(Len(sorted) - maxLogFiles - 1)}

\* The files pruneOldLogs removes: logFiles[:len(logFiles)-MaxLogFiles].
ToRemove(names, maxLogFiles) ==
    IF Cardinality(names) <= maxLogFiles THEN {}
    ELSE LET sorted == SortByName(names)
         IN {sorted[i] : i \in 1..(Len(sorted) - maxLogFiles)}

Prune(u) ==
    /\ units[u].pc = "prune"
    /\ logs' = [f \in DOMAIN logs \ ToRemove(DOMAIN logs, cfg.MaxLogFiles) |-> logs[f]]
    /\ units' = [units EXCEPT ![u] = DoneUnit]
    /\ UNCHANGED <<mu, status, current, history, runs, callers, historyFile,
                   now, accepted, restarts, writeFailed>>
    /\ UNCHANGED <<cfg, response, arrivals, lastRead, view, sched, auxVars>>

\* pruneOldLogs in its two parts.  os.ReadDir, the filter and the sort: the
\* call has its list of files to remove.
PruneReadDir(u) ==
    /\ units[u].pc = "prune"
    /\ pruning' = (u :> ToRemove(DOMAIN logs, cfg.MaxLogFiles)) @@ pruning
    /\ units' = [units EXCEPT ![u].pc = "remove"]
    /\ UNCHANGED <<mu, status, current, history, runs, callers, historyFile, logs,
                   now, accepted, restarts, writeFailed>>
    /\ UNCHANGED <<cfg, response, arrivals, lastRead, view, sched, dash, applying>>

\* The loop of os.Remove over the list, by name: a file that was created
\* under a listed name meanwhile is removed as well.
PruneRemove(u) ==
    /\ units[u].pc = "remove"
    /\ logs' = [f \in DOMAIN logs \ pruning[u] |-> logs[f]]
    /\ pruning' = [v \in DOMAIN pruning \ {u} |-> pruning[v]]
    /\ units' = [units EXCEPT ![u] = DoneUnit]
    /\ UNCHANGED <<mu, status, current, history, runs, callers, historyFile,
                   now, accepted, restarts, writeFailed>>
    /\ UNCHANGED <<cfg, response, arrivals, lastRead, view, sched, dash, applying>>

-----------------------------------------------------------------------------
(* BackupExecutor.ReadLog.  A file name is a text whose pieces are the        *)
(* characters "/", "\" and "." and runs of other characters.                  *)

\* The text of the name of a transcript.
FileText(f) == <<f[1], ToString(f[2]), ".", "log">>

HistoryFileText == <<"history", ".", "json">>

\* strings.Contains
Contains(text, part) ==
    \E i \in 0..(Len(text) - Len(part)) : SubSeq(text, i + 1, i + Len(part)) = part

RECURSIVE Split(_)
\* The elements of a path: the texts between its separators.
Split(text) ==
    IF \A i \in 1..Len(text) : text[i] # "/" THEN <<text>>
    ELSE LET k == CHOOSE i \in 1..Len(text) :
                    text[i] = "/" /\ \A j \in 1..(i - 1) : text[j] # "/"
         IN <<SubSeq(text, 1, k - 1)>> \o Split(SubSeq(text, k + 1, Len(text)))

RECURSIVE Walk(_, _)
\* filepath.Clean from a directory: empty and "." elements stay, ".." leaves
\* to the parent, any other element enters.  The place is how many levels
\* above the log directory it left to, and the elements below that.
Walk(place, elements) ==
    IF elements = <<>> THEN place
    ELSE LET e == Head(elements)
             next == IF e = <<>> \/ e = <<".">> THEN place
                     ELSE IF e = <<".", ".">>
                          THEN IF place.below # <<>>
                               THEN [place EXCEPT !.below = SubSeq(@, 1, Len(@) - 1)]
                               ELSE [place EXCEPT !.up = @ + 1]
                          ELSE [place EXCEPT !.below = Append(@, e)]
         IN Walk(next, Tail(elements))

\* filepath.Join(ex.cfg.LogDir, filename)
JoinLogDir(filename) == Walk([up |-> 0, below |-> <<>>], Split(filename))

\* Whether os.ReadFile finds a file to read at a place: a transcript or the
\* history file directly in the log directory; the log directory itself is
\* no file; outside of it there may be one or not.
CanRead(place) ==
    IF place.up > 0 THEN BOOLEAN
    ELSE IF Len(place.below) # 1 THEN {FALSE}
    ELSE {(\E f \in DOMAIN logs : FileText(f) = place.below[1])
            \/ (place.below[1] = HistoryFileText /\ historyFile.kind # "absent")}

\* What a ReadLog call leaves: its argument, whether it returned an error, and
\* the place it gave to os.ReadFile (NoPath when it did not call it).
ReadResult(filename, err, place) == [name |-> filename, err |-> err, read |-> place]

\* A variant of ReadLog that rejects the names with a separator only.
ReadLogSeparatorsOnly(filename) ==
    /\ IF Contains(filename, <<"/">>) \/ Contains(filename, <<"\\">>)
       THEN lastRead' = ReadResult(filename, TRUE, NoPath)
       ELSE \E found \in CanRead(JoinLogDir(filename)) :
                lastRead' = ReadResult(filename, ~found, JoinLogDir(filename))
    /\ UNCHANGED <<exVars, cfg, response, arrivals, view, sched, auxVars>>

ReadLog(filename) ==
    /\ IF \/ Contains(filename, <<"/">>)
          \/ Contains(filename, <<"\\">>)
          \/ Contains(filename, <<".", ".">>)
       THEN lastRead' = ReadResult(filename, TRUE, NoPath)
       ELSE \E found \in CanRead(JoinLogDir(filename)) :
                lastRead' = ReadResult(filename, ~found, JoinLogDir(filename))
    /\ UNCHANGED <<exVars, cfg, response, arrivals, view, sched, auxVars>>

\* The names given to ReadLog: every text of up to MaxNameLen pieces, the
\* names of the transcripts and of the history file.
ReadNames ==
    Texts({"a", ".", "/", "\\"}, MaxNameLen)
        \cup {FileText(LogFileName(RunIDAt(t))) : t \in 0..MaxTime}
        \cup {HistoryFileText}

-----------------------------------------------------------------------------
(* The readers of the executor: Status, Current, History and LastRun.  Each  *)
(* takes the mutex, builds its result and releases the mutex on return.      *)

\* The arrays finishRun has allocated for ex.history in this process.
HistoryArrays ==
    Cardinality({u \in UnitIds : units[u].pc \in {"save", "prune", "remove", "done"}})

Returned(call, st, recs, shares, at) ==
    [call |-> call, status |-> st, runs |-> recs, shares |-> shares, at |-> at]

\* return ex.status
Status ==
    /\ mu = Free
    /\ view' = Returned("Status", status, <<>>, "copy", 0)
    /\ UNCHANGED <<exVars, cfg, response, arrivals, lastRead, sched, auxVars>>

\* A variant of Current without ex.mu.Lock().
CurrentUnlocked ==
    /\ view' = IF current # 0
               THEN Returned("Current", "", <<runs[current]>>, "copy", 0)
               ELSE Returned("Current", "", <<>>, "copy", 0)
    /\ UNCHANGED <<exVars, cfg, response, arrivals, lastRead, sched, auxVars>>

\* A variant of Current that returns ex.current itself.
CurrentReturnsPointer ==
    /\ mu = Free
    /\ view' = IF current # 0
               THEN Returned("Current", "", <<runs[current]>>, "current", current)
               ELSE Returned("Current", "", <<>>, "copy", 0)
    /\ UNCHANGED <<exVars, cfg, response, arrivals, lastRead, sched, auxVars>>

\* cp := *ex.current; return &cp, or nil
Current ==
    /\ mu = Free
    /\ view' = IF current # 0
               THEN Returned("Current", "", <<runs[current]>>, "copy", 0)
               ELSE Returned("Current", "", <<>>, "copy", 0)
    /\ UNCHANGED <<exVars, cfg, response, arrivals, lastRead, sched, auxVars>>

\* out := make([]BackupRun, len(ex.history)); copy(out, ex.history)
History ==
    /\ mu = Free
    /\ view' = Returned("History", "", history, "copy", 0)
    /\ UNCHANGED <<exVars, cfg, response, arrivals, lastRead, sched, auxVars>>

\* cp := ex.history[0]; return &cp, or nil
LastRun ==
    /\ mu = Free
    /\ view' = IF history # <<>>
               THEN Returned("LastRun", "", <<history[1]>>, "copy", 0)
               ELSE Returned("LastRun", "", <<>>, "copy", 0)
    /\ UNCHANGED <<exVars, cfg, response, arrivals, lastRead, sched, auxVars>>

\* The caller writes to a field of record i of the value it was given.  The
\* write lands in the caller's memory; it lands in the executor's too when the
\* value shares the object of ex.current or the array ex.history still has.
ModifyReturned(i) ==
    /\ i \in 1..Len(view.runs)
    /\ view.runs[i].Summary # "changed by caller"
    /\ view' = [view EXCEPT !.runs[i].Summary = "changed by caller"]
    /\ runs' = IF view.shares = "current" /\ view.at \in 1..Len(runs)
               THEN [runs EXCEPT ![view.at].Summary = "changed by caller"]
               ELSE runs
    /\ history' = IF view.shares = "history" /\ view.at = HistoryArrays
                        /\ i \in 1..Len(history)
                  THEN [history EXCEPT ![i].Summary = "changed by caller"]
                  ELSE history
    /\ UNCHANGED <<mu, status, current, units, callers, historyFile, logs,
                   now, accepted, restarts, writeFailed>>
    /\ UNCHANGED <<cfg, response, arrivals, lastRead, sched, auxVars>>

-----------------------------------------------------------------------------
(* The process is stopped (at any point) and started again on the same log   *)
(* directory: main constructs a new executor with NewBackupExecutor.         *)

Restart ==
    /\ restarts < MaxRestarts
    /\ Constructed(historyFile)
    /\ restarts' = restarts + 1
    /\ view' = NoView
    /\ sched' = "running"
    /\ pruning' = NoPruning
    /\ dash' = NoDash
    /\ applying' = NoApply
    /\ UNCHANGED <<historyFile, logs, now, accepted>>
    /\ UNCHANGED <<cfg, response, arrivals, lastRead>>

-----------------------------------------------------------------------------

Next ==
    \/ Tick
    \/ \E c \in Callers : RunBusy(c) /\ UNCHANGED <<response, arrivals>>
    \/ \E c \in Callers : RunAccept(c) /\ UNCHANGED <<response, arrivals>>
    \/ \E c \in Callers : RunSpawn(c) /\ UNCHANGED <<response, arrivals>>
    \/ \E u \in UnitIds : ExecOpenLog(u)
    \/ \E u \in UnitIds : ExecProcExit(u)
    \/ \E u \in UnitIds : FinishStamp(u)
    \/ \E u \in UnitIds : FinishPublish(u)
    \/ \E u \in UnitIds : FinishSave(u)
    \/ \E u \in UnitIds : Prune(u)
    \/ Restart

Spec == Init /\ [][Next]_vars

\* The same program started on a history file at the cap, the clock standing
\* still.
NextCap ==
    \/ \E c \in Callers : RunBusy(c) /\ UNCHANGED <<response, arrivals>>
    \/ \E c \in Callers : RunAccept(c) /\ UNCHANGED <<response, arrivals>>
    \/ \E c \in Callers : RunSpawn(c) /\ UNCHANGED <<response, arrivals>>
    \/ \E u \in UnitIds : ExecOpenLog(u)
    \/ \E u \in UnitIds : ExecProcExit(u)
    \/ \E u \in UnitIds : FinishStamp(u)
    \/ \E u \in UnitIds : FinishPublish(u)
    \/ \E u \in UnitIds : FinishSave(u)
    \/ \E u \in UnitIds : Prune(u)
    \/ Restart

SpecCap == InitCap /\ [][NextCap]_vars

\* The first run of a process started on a directory without history, the
\* external process ending with any exit code.
NextExit ==
    \/ Tick
    \/ \E c \in Callers : RunBusy(c) /\ UNCHANGED <<response, arrivals>>
    \/ \E c \in Callers : accepted = 0 /\ RunAccept(c) /\ UNCHANGED <<response, arrivals>>
    \/ \E c \in Callers : RunSpawn(c) /\ UNCHANGED <<response, arrivals>>
    \/ \E u \in UnitIds : ExecOpenLog(u)
    \/ \E u \in UnitIds : ExecProcExitAny(u)
    \/ \E u \in UnitIds : FinishStamp(u)
    \/ \E u \in UnitIds : FinishPublish(u)
    \/ \E u \in UnitIds : FinishSave(u)
    \/ \E u \in UnitIds : Prune(u)

SpecExit == StartOn({Absent}, {BaseCfg}, {NoLogs}) /\ [][NextExit]_vars

\* One run of a process started with any of the configurations of ArgCfgs.
NextArgs ==
    \/ \E c \in Callers : RunBusy(c) /\ UNCHANGED <<response, arrivals>>
    \/ \E c \in Callers : accepted = 0 /\ RunAccept(c) /\ UNCHANGED <<response, arrivals>>
    \/ \E c \in Callers : RunSpawn(c) /\ UNCHANGED <<response, arrivals>>
    \/ \E u \in UnitIds : ExecOpenLog(u)
    \/ \E u \in UnitIds : ExecProcExit(u)
    \/ \E u \in UnitIds : FinishStamp(u)
    \/ \E u \in UnitIds : FinishPublish(u)
    \/ \E u \in UnitIds : FinishSave(u)
    \/ \E u \in UnitIds : Prune(u)

SpecArgs == StartOn({Absent}, ArgCfgs, {NoLogs}) /\ [][NextArgs]_vars

\* One run of a process, and the logs read by name meanwhile.
NextRead ==
    \/ \E c \in Callers : RunBusy(c) /\ UNCHANGED <<response, arrivals>>
    \/ \E c \in Callers : accepted = 0 /\ RunAccept(c) /\ UNCHANGED <<response, arrivals>>
    \/ \E c \in Callers : RunSpawn(c) /\ UNCHANGED <<response, arrivals>>
    \/ \E u \in UnitIds : ExecOpenLog(u)
    \/ \E u \in UnitIds : ExecProcExit(u)
    \/ \E u \in UnitIds : FinishStamp(u)
    \/ \E u \in UnitIds : FinishPublish(u)
    \/ \E u \in UnitIds : FinishSave(u)
    \/ \E u \in UnitIds : Prune(u)
    \/ \E filename \in ReadNames : ReadLog(filename)

SpecRead == StartOn({Absent}, {BaseCfg}, {NoLogs}) /\ [][NextRead]_vars

\* The server: requests to the trigger endpoint and ticks of the scheduler.
NextServe ==
    \/ \E method \in Methods : handleTriggerBackup(method)
    \/ handleTriggerBackupReturn
    \/ cronCallback
    \/ cronCallbackReturn
    \/ \E u \in UnitIds : ExecOpenLog(u)
    \/ \E u \in UnitIds : ExecProcExit(u)
    \/ \E u \in UnitIds : FinishStamp(u)
    \/ \E u \in UnitIds : FinishPublish(u)
    \/ \E u \in UnitIds : FinishSave(u)
    \/ \E u \in UnitIds : Prune(u)

SpecServe == StartOn({Absent}, {BaseCfg}, {NoLogs}) /\ [][NextServe]_vars

\* Config.TransferConfigured: all transfer settings are set.
TransferConfigured(c) ==
    c.SourcePath # <<>> /\ c.RemoteHost # <<>> /\ c.RemotePath # <<>> /\ c.SSHKeyPath # <<>>

\* The configurations main starts with: validate() asks for a schedule only,
\* and without settings.json the transfer settings are what config.yaml
\* names, which may be none of them.
LoadedCfgs ==
    {BaseCfg,
     [BaseCfg EXCEPT !.SourcePath = <<>>],
     [BaseCfg EXCEPT !.RemoteHost = <<>>],
     [BaseCfg EXCEPT !.SourcePath = <<>>, !.RemoteHost = <<>>,
                     !.RemotePath = <<>>, !.SSHKeyPath = <<>>]}

\* The server started by main with any loaded configuration.
SpecLoaded == StartOn({Absent}, LoadedCfgs, {NoLogs}) /\ [][NextServe]_vars

-----------------------------------------------------------------------------
(* Config.ApplyTransferSettings on the *Config that main hands to the
   executor and to the server: five assignments, no lock. *)

\* The settings a caller applies: the ones of BaseCfg, or others that differ
\* from them in every field.
NewSettings ==
    [SourcePath |-> <<"/", "new">>, SourceIsFile |-> TRUE,
     RemoteHost |-> <<"user@n">>, RemotePath |-> <<"/", "mirror">>,
     SSHKeyPath |-> <<"/", "newkey">>]

SettingsChoices == {GetTransferSettings(BaseCfg), NewSettings}

\* The configuration after a whole call of ApplyTransferSettings(s).
Applied(c, s) ==
    [c EXCEPT !.SourcePath = s.SourcePath, !.SourceIsFile = s.SourceIsFile,
              !.RemoteHost = s.RemoteHost, !.RemotePath = s.RemotePath,
              !.SSHKeyPath = s.SSHKeyPath]

\* The configuration after the first n assignments of ApplyTransferSettings(s).
AppliedUpTo(c, s, n) ==
    [c EXCEPT !.SourcePath = IF n >= 1 THEN s.SourcePath ELSE @,
              !.SourceIsFile = IF n >= 2 THEN s.SourceIsFile ELSE @,
              !.RemoteHost = IF n >= 3 THEN s.RemoteHost ELSE @,
              !.RemotePath = IF n >= 4 THEN s.RemotePath ELSE @,
              !.SSHKeyPath = IF n >= 5 THEN s.SSHKeyPath ELSE @]

\* The call and its first assignment, c.SourcePath = s.SourcePath.
ApplyTransferSettings(s) ==
    /\ applying.done = 0
    /\ s # GetTransferSettings(cfg)
    /\ cfg' = AppliedUpTo(cfg, s, 1)
    /\ applying' = [done |-> 1, s |-> s]
    /\ UNCHANGED <<exVars, response, arrivals, lastRead, view, sched, pruning, dash>>

\* The next assignment of the call in progress; the call returns after the
\* fifth, c.SSHKeyPath = s.SSHKeyPath.
ApplyNextField ==
    /\ applying.done \in 1..4
    /\ cfg' = AppliedUpTo(cfg, applying.s, applying.done + 1)
    /\ applying' = IF applying.done = 4 THEN NoApply
                   ELSE [applying EXCEPT !.done = @ + 1]
    /\ UNCHANGED <<exVars, response, arrivals, lastRead, view, sched, pruning, dash>>

\* One run of the executor while a caller applies transfer settings.
NextSettings ==
    \/ \E c \in Callers : RunBusy(c) /\ UNCHANGED <<response, arrivals>>
    \/ \E c \in Callers : accepted = 0 /\ RunAccept(c) /\ UNCHANGED <<response, arrivals>>
    \/ \E c \in Callers : RunSpawn(c) /\ UNCHANGED <<response, arrivals>>
    \/ \E u \in UnitIds : ExecOpenLog(u)
    \/ \E u \in UnitIds : ExecProcExit(u)
    \/ \E u \in UnitIds : FinishStamp(u)
    \/ \E u \in UnitIds : FinishPublish(u)
    \/ \E u \in UnitIds : FinishSave(u)
    \/ \E u \in UnitIds : Prune(u)
    \/ \E s \in SettingsChoices : ApplyTransferSettings(s)
    \/ ApplyNextField

SpecSettings == StartOn({Absent}, {BaseCfg}, {NoLogs}) /\ [][NextSettings]_vars

-----------------------------------------------------------------------------
(* Server.dashboardData, called by handleStatus and the other handlers: four
   calls of the executor's readers, each with its own Lock and Unlock. *)

\* last := s.executor.LastRun()
DashLastRun ==
    /\ dash.pc \in {"idle", "done"}
    /\ mu = Free
    /\ dash' = [NoDash EXCEPT !.pc = "history",
                              !.last = IF history # <<>> THEN <<history[1]>> ELSE <<>>]
    /\ UNCHANGED <<exVars, cfg, response, arrivals, lastRead, view, sched,
                   pruning, applying>>

\* history := s.executor.History()
DashHistory ==
    /\ dash.pc = "history"
    /\ mu = Free
    /\ dash' = [dash EXCEPT !.pc = "current", !.history = history]
    /\ UNCHANGED <<exVars, cfg, response, arrivals, lastRead, view, sched,
                   pruning, applying>>

\* current := s.executor.Current()
DashCurrent ==
    /\ dash.pc = "current"
    /\ mu = Free
    /\ dash' = [dash EXCEPT !.pc = "status",
                            !.current = IF current # 0 THEN <<runs[current]>> ELSE <<>>]
    /\ UNCHANGED <<exVars, cfg, response, arrivals, lastRead, view, sched,
                   pruning, applying>>

\* status := s.executor.Status(); if current != nil { status = StatusRunning };
\* return DashboardData{...}
DashStatus ==
    /\ dash.pc = "status"
    /\ mu = Free
    /\ dash' = [dash EXCEPT !.pc = "done",
                            !.status = IF dash.current # <<>> THEN StatusRunning
                                       ELSE status]
    /\ UNCHANGED <<exVars, cfg, response, arrivals, lastRead, view, sched,
                   pruning, applying>>

\* The runs of one process and status requests at any point.
NextDash ==
    \/ \E c \in Callers : RunBusy(c) /\ UNCHANGED <<response, arrivals>>
    \/ \E c \in Callers : RunAccept(c) /\ UNCHANGED <<response, arrivals>>
    \/ \E c \in Callers : RunSpawn(c) /\ UNCHANGED <<response, arrivals>>
    \/ \E u \in UnitIds : ExecOpenLog(u)
    \/ \E u \in UnitIds : ExecProcExit(u)
    \/ \E u \in UnitIds : FinishStamp(u)
    \/ \E u \in UnitIds : FinishPublish(u)
    \/ \E u \in UnitIds : FinishSave(u)
    \/ \E u \in UnitIds : Prune(u)
    \/ DashLastRun
    \/ DashHistory
    \/ DashCurrent
    \/ DashStatus

SpecDash ==
    /\ StartOn({Absent, ProgramFile(1, 23)}, {BaseCfg}, {NoLogs})
    /\ [][NextDash]_vars

\* The server until main has stopped the scheduler at shutdown: requests and
\* ticks go on while Stop() is in progress, requests after it as well.
NextStop ==
    \/ \E method \in Methods : handleTriggerBackup(method)
    \/ handleTriggerBackupReturn
    \/ cronCallback
    \/ cronCallbackReturn
    \/ SchedulerStop
    \/ SchedulerStopReturn
    \/ \E u \in UnitIds : ExecOpenLog(u)
    \/ \E u \in UnitIds : ExecProcExit(u)
    \/ \E u \in UnitIds : FinishStamp(u)
    \/ \E u \in UnitIds : FinishPublish(u)
    \/ \E u \in UnitIds : FinishSave(u)
    \/ \E u \in UnitIds : Prune(u)

SpecStop == StartOn({Absent}, {BaseCfg}, {NoLogs}) /\ [][NextStop]_vars

\* The runs of one process that is not stopped.
NextLive ==
    \/ \E c \in Callers : RunBusy(c) /\ UNCHANGED <<response, arrivals>>
    \/ \E c \in Callers : RunAccept(c) /\ UNCHANGED <<response, arrivals>>
    \/ \E c \in Callers : RunSpawn(c) /\ UNCHANGED <<response, arrivals>>
    \/ \E u \in UnitIds : ExecOpenLog(u)
    \/ \E u \in UnitIds : ExecProcExit(u)
    \/ \E u \in UnitIds : FinishStamp(u)
    \/ \E u \in UnitIds : FinishPublish(u)
    \/ \E u \in UnitIds : FinishSave(u)
    \/ \E u \in UnitIds : Prune(u)

\* Every goroutine that can take a step is scheduled in the end: Run() gets to
\* its go statement and execute to each of its steps; the external process
\* ends, or cmd.Run() fails to start it.
Fairness ==
    /\ \A c \in Callers : WF_vars(RunSpawn(c) /\ UNCHANGED <<response, arrivals>>)
    /\ \A u \in 1..MaxRuns :
        /\ WF_vars(u \in UnitIds /\ ExecOpenLog(u))
        /\ WF_vars(u \in UnitIds /\ ExecProcExit(u))
        /\ WF_vars(u \in UnitIds /\ FinishStamp(u))
        /\ WF_vars(u \in UnitIds /\ FinishPublish(u))
        /\ WF_vars(u \in UnitIds /\ FinishSave(u))
        /\ WF_vars(u \in UnitIds /\ Prune(u))

SpecLive ==
    /\ StartOn({Absent}, {BaseCfg}, {NoLogs})
    /\ [][NextLive]_vars
    /\ Fairness

\* The runs of one process, the readers called at any point, and their
\* callers writing to what they were given.
NextReaders ==
    \/ \E c \in Callers : RunBusy(c) /\ UNCHANGED <<response, arrivals>>
    \/ \E c \in Callers : RunAccept(c) /\ UNCHANGED <<response, arrivals>>
    \/ \E c \in Callers : RunSpawn(c) /\ UNCHANGED <<response, arrivals>>
    \/ \E u \in UnitIds : ExecOpenLog(u)
    \/ \E u \in UnitIds : ExecProcExit(u)
    \/ \E u \in UnitIds : FinishStamp(u)
    \/ \E u \in UnitIds : FinishPublish(u)
    \/ \E u \in UnitIds : FinishSave(u)
    \/ \E u \in UnitIds : Prune(u)
    \/ Status
    \/ Current
    \/ History
    \/ LastRun
    \/ \E i \in 1..Len(view.runs) : ModifyReturned(i)

SpecReaders ==
    /\ StartOn({Absent, ProgramFile(1, 23)}, {BaseCfg}, {NoLogs})
    /\ [][NextReaders]_vars

\* The transcripts of the n runs of an earlier process, one a second, the last
\* one a second before the start.
EarlierLogs(n) ==
    [f \in {LogFileName(0 - i) : i \in 1..n} |->
        <<StartBanner(buildRsyncArgs(BaseCfg)), FinishBanner(0)>>]

\* max_log_files from 0 to MaxCap.
RetentionCfgs == {[BaseCfg EXCEPT !.MaxLogFiles = m] : m \in 0..MaxCap}

\* One run of a process started with any max_log_files on a log directory
\* that holds the transcripts of earlier runs.
NextRetention ==
    \/ Tick
    \/ \E c \in Callers : RunBusy(c) /\ UNCHANGED <<response, arrivals>>
    \/ \E c \in Callers : accepted = 0 /\ RunAccept(c) /\ UNCHANGED <<response, arrivals>>
    \/ \E c \in Callers : RunSpawn(c) /\ UNCHANGED <<response, arrivals>>
    \/ \E u \in UnitIds : ExecOpenLog(u)
    \/ \E u \in UnitIds : ExecProcExit(u)
    \/ \E u \in UnitIds : FinishStamp(u)
    \/ \E u \in UnitIds : FinishPublish(u)
    \/ \E u \in UnitIds : FinishSave(u)
    \/ \E u \in UnitIds : Prune(u)

SpecRetention ==
    /\ StartOn({Absent}, RetentionCfgs, {EarlierLogs(n) : n \in 0..MaxEarlierLogs})
    /\ [][NextRetention]_vars

\* The runs of a process started with any max_log_files on a log directory
\* that holds no more transcripts than that, pruneOldLogs taking its two
\* steps among the steps of the next run: a run and the run accepted after it.
NextPrune ==
    \/ Tick
    \/ \E c \in Callers : RunBusy(c) /\ UNCHANGED <<response, arrivals>>
    \/ \E c \in Callers : accepted <= 1 /\ RunAccept(c) /\ UNCHANGED <<response, arrivals>>
    \/ \E c \in Callers : RunSpawn(c) /\ UNCHANGED <<response, arrivals>>
    \/ \E u \in UnitIds : ExecOpenLog(u)
    \/ \E u \in UnitIds : ExecProcExit(u)
    \/ \E u \in UnitIds : FinishStamp(u)
    \/ \E u \in UnitIds : FinishPublish(u)
    \/ \E u \in UnitIds : FinishSave(u)
    \/ \E u \in UnitIds : PruneReadDir(u)
    \/ \E u \in UnitIds : PruneRemove(u)

SpecPrune ==
    /\ \E c \in RetentionCfgs :
            StartOn({Absent}, {c},
                    {EarlierLogs(n) : n \in {k \in 0..MaxEarlierLogs : k <= c.MaxLogFiles}})
    /\ [][NextPrune]_vars

-----------------------------------------------------------------------------
(* Properties. *)

\* The runs that were accepted and whose finishRun has not returned.
ActiveUnits == {u \in UnitIds : units[u].pc \notin {"prune", "remove", "done"}}

\* C1: single flight.  Under every interleaving of Run() calls at most one run
\* is between its acceptance and the return of its finishRun: no second run
\* is accepted and no second execute goroutine is started meanwhile.
SingleFlight == Cardinality(ActiveUnits) <= 1

\* A second run is in progress while the goroutine of the first one, past its
\* finishRun, has still to prune.
SingleFlightWitness ==
    /\ Len(units) = 2
    /\ units[1].pc = "prune"
    /\ units[2].pc = "wait"

\* C2: outside the mutex, the current run is non-nil exactly when the status
\* is running.
CurrentIffRunning == mu = Free => ((current # 0) <=> (status = StatusRunning))

\* After one run has completed a second one is current.
CurrentIffRunningWitness ==
    /\ mu = Free
    /\ Len(units) = 2
    /\ units[1].pc = "done"
    /\ current = 2
    /\ status = StatusRunning

\* C3: a Run() made while the status is running is never accepted; it returns
\* the error and changes neither status, current run, history (in memory or on
\* disk) nor the execute goroutines.
BusyRejected ==
    /\ [](status = StatusRunning => \A c \in Callers : ~ENABLED RunAccept(c))
    /\ [][\A c \in Callers :
            RunBusy(c) => UNCHANGED <<status, current, history, historyFile,
                                      runs, units, callers, logs>>]_vars

\* One caller is rejected while the Run() of the other has been accepted and
\* has not yet started its goroutine.
BusyRejectedWitness ==
    \E c, d \in Callers :
        /\ callers[c].pc = "spawn"
        /\ callers[d].pc = "idle"
        /\ ENABLED RunBusy(d)

\* C4: a caller whose Run() was accepted can return at once, whatever the
\* state of the run: the status is running and Run() does not wait for the
\* external process.
RunReturnsAtOnce ==
    \A c \in Callers :
        callers[c].pc # "idle" => (status = StatusRunning /\ ENABLED RunSpawn(c))

\* Every caller has returned and the external process is still running.
RunReturnsAtOnceWitness ==
    /\ \A c \in Callers : callers[c].pc = "idle"
    /\ status = StatusRunning
    /\ \E u \in UnitIds : units[u].pc = "wait"

\* The tier the claims give to an exit code.
ClaimedTier(code) ==
    IF code = 0 THEN "success"
    ELSE IF code \in {23, 24} THEN "warning"
    ELSE "failed"

\* C5: for every exit code given to finishRun, the status of the run and the
\* aggregate status become success for 0, warning for 23 and 24, failed for
\* every other code.
ExitTier ==
    /\ \A u \in UnitIds :
        units[u].pc \in {"publish", "save"} =>
            /\ runs[u].ExitCode = units[u].exitCode
            /\ runs[u].Status = ClaimedTier(units[u].exitCode)
            /\ status = ClaimedTier(units[u].exitCode)
    /\ \A i \in 1..Len(history) : history[i].Status = ClaimedTier(history[i].ExitCode)

\* finishRun has stamped a run that ended with the negative exit code of a
\* process killed by a signal.
ExitTierWitness ==
    \E u \in UnitIds :
        /\ units[u].pc = "publish"
        /\ units[u].exitCode = 0 - 1
        /\ status = StatusFailed

\* The exit codes rsyncExitSummary has a text of their own for.
KnownCodes == {1, 2, 3, 5, 10, 11, 12, 14, 20, 23, 24, 25, 30, 35, 255}

GenericSummary(code) == "rsync error (" \o "exit code " \o ToString(code) \o ")"

\* What the summary of exit code `code` is claimed to be: the texts the claim
\* and TestRsyncExitSummary name, a text of its own for each other known code,
\* the generic text for the rest.
IsClaimedSummary(code, text) ==
    /\ code = 0 => text = "completed successfully"
    /\ code = 1 => text = "syntax or usage error"
    /\ code = 23 => text = "partial transfer - some files could not be transferred"
    /\ code = 24 => text = "partial transfer - some source files vanished during sync"
    /\ code = 255 => text = "SSH connection failed - remote host unreachable or auth denied"
    /\ code \in KnownCodes =>
        /\ text # GenericSummary(code)
        /\ \A other \in KnownCodes \ {code} : text # rsyncExitSummary(other)
    /\ code \notin KnownCodes \cup {0} => text = GenericSummary(code)

\* C6, as claimed: the summary of every run is the text of its exit code.
SummaryOfEveryRun ==
    \A i \in 1..Len(history) : IsClaimedSummary(history[i].ExitCode, history[i].Summary)

\* C6, amended: the summary of a run whose transcript was created is the text
\* of its exit code; a run whose transcript could not be created has exit
\* code 1 and the summary "failed to create log file".
SummaryOfExitCode ==
    /\ \A u \in UnitIds :
        units[u].pc \in {"finish", "publish", "save"} =>
            IF units[u].prune
            THEN IsClaimedSummary(units[u].exitCode, units[u].summary)
            ELSE units[u].exitCode = 1 /\ units[u].summary = "failed to create log file"
    /\ \A u \in UnitIds :
        units[u].pc \in {"publish", "save"} => runs[u].Summary = units[u].summary
    /\ \A i \in 1..Len(history) :
        \/ IsClaimedSummary(history[i].ExitCode, history[i].Summary)
        \/ history[i].ExitCode = 1 /\ history[i].Summary = "failed to create log file"

\* A run that ended with the unmapped exit code 99 is in the history.
SummaryOfExitCodeWitness ==
    /\ Len(history) = 1
    /\ history[1].ExitCode = 99
    /\ history[1].Summary = "rsync error (exit code 99)"

\* A run of this process has completed.
CompletedHere == \E u \in UnitIds : units[u].pc \in {"save", "prune", "remove", "done"}

Min(a, b) == IF a < b THEN a ELSE b

\* C7: once a run has completed the history has at most 100 entries, and each
\* finishRun leaves the first 100 entries of the new record followed by the
\* previous history: only entries of the tail are dropped.
HistoryPrependCapped ==
    /\ [](CompletedHere => Len(history) <= 100)
    /\ [][\A u \in UnitIds :
            FinishPublish(u) =>
                /\ Len(history') = Min(Len(history) + 1, 100)
                /\ history'[1] = runs[u]
                /\ \A i \in 2..Len(history') : history'[i] = history[i - 1]]_vars

\* Two runs were prepended to a history at the cap and its two oldest entries
\* were dropped.
HistoryPrependCappedWitness ==
    /\ Len(history) = 100
    /\ history[2].ID >= 0
    /\ history[100].ID = 0 - 98

\* C8: in every reachable state, the state after construction on a history
\* file of any length included, the history has at most 100 entries.
HistoryAtMostCap == Len(history) <= 100

\* C9: round trip across a restart.  When no write of the history file has
\* failed, the executor constructed on the same log directory has the history
\* of the old one, in content and order, and the status of its newest record.
RestartRoundTrip ==
    [][(Restart /\ mu = Free /\ ~writeFailed) =>
            /\ history' = history
            /\ history # <<>> => status' = history[1].Status
            /\ history = <<>> => status' = StatusIdle]_vars

\* A restarted process holds a run of the process before it, on top of the
\* run of the first history file.
RestartRoundTripWitness ==
    /\ restarts >= 1
    /\ units = <<>>
    /\ Len(history) = 2
    /\ history[1].ID >= 0
    /\ status = history[1].Status

\* C10: construction on an absent or malformed history file does not fail: the
\* history is empty, the status idle, no run is current, and Run() is accepted.
FreshOnBadFile ==
    (units = <<>> /\ historyFile.kind # "json") =>
        /\ history = <<>>
        /\ status = StatusIdle
        /\ current = 0
        /\ \A c \in Callers : accepted < MaxRuns => ENABLED RunAccept(c)

\* The first Run() of an executor constructed on a malformed file was accepted.
FreshOnBadFileWitness ==
    /\ historyFile.kind = "malformed"
    /\ history = <<>>
    /\ Len(units) = 1
    /\ units[1].pc = "wait"
    /\ status = StatusRunning

\* C11: run ids are unique within the process lifetime: no two runs allocated
\* by Run() in one process (current or in history) have the same id, nor the
\* same transcript file name.
UniqueRunIds ==
    \A i, j \in 1..Len(runs) :
        i # j => (runs[i].ID # runs[j].ID /\ runs[i].LogFile # runs[j].LogFile)

\* The time stamp in the name of a transcript: the order of the names.
NameStamp(f) == f[2]

\* C12: when a run's retention step has finished, the transcripts on disk are
\* the min(n, MaxLogFiles) newest by name of the n that were there before it,
\* each with its content: cap 3 on 5 transcripts leaves the 3 newest.
RetentionKeepsNewest ==
    [][\A u \in UnitIds :
        Prune(u) =>
            LET before == DOMAIN logs
                after == DOMAIN logs'
            IN /\ after \subseteq before
               /\ Cardinality(after) = Min(Cardinality(before), cfg.MaxLogFiles)
               /\ \A kept \in after, dropped \in before \ after :
                    NameStamp(dropped) < NameStamp(kept)
               /\ \A kept \in after : logs'[kept] = logs[kept]]_vars

\* With cap 3, the run that started at second 0 on a directory of four earlier
\* transcripts has pruned: its own and the two newest earlier ones are left.
RetentionKeepsNewestWitness ==
    /\ cfg.MaxLogFiles = 3
    /\ Len(units) = 1
    /\ units[1].pc = "done"
    /\ units[1].prune
    /\ runs[1].ID = 0
    /\ DOMAIN logs = {LogFileName(0 - 2), LogFileName(0 - 1), LogFileName(0)}

\* The command lines execute has written to the transcripts.
CommandLines == {logs[f][1].args : f \in {g \in DOMAIN logs : Len(logs[g]) > 0}}

\* stem is path without its trailing separators, however many there are.
IsStemOf(stem, path) ==
    /\ Len(stem) <= Len(path)
    /\ stem = SubSeq(path, 1, Len(stem))
    /\ stem = <<>> \/ stem[Len(stem)] # "/"
    /\ \A i \in (Len(stem) + 1)..Len(path) : path[i] = "/"

\* text ends in one separator and not in two.
EndsInOneSeparator(text) ==
    /\ Len(text) >= 1
    /\ text[Len(text)] = "/"
    /\ Len(text) >= 2 => text[Len(text) - 1] # "/"

\* C14: the source argument is the second-to-last argument; it is the
\* configured source path unchanged when SourceIsFile is set, and otherwise the
\* path without its trailing separators followed by exactly one separator.
SourceArgument ==
    \A args \in CommandLines :
        LET source == args[Len(args) - 1]
        IN IF cfg.SourceIsFile
           THEN source = cfg.SourcePath
           ELSE /\ EndsInOneSeparator(source)
                /\ IsStemOf(SubSeq(source, 1, Len(source) - 1), cfg.SourcePath)

\* A directory source configured with two trailing separators was given to
\* rsync with one.
SourceArgumentWitness ==
    /\ ~cfg.SourceIsFile
    /\ cfg.SourcePath = <<"a", "/", "/">>
    /\ \E args \in CommandLines : args[Len(args) - 1] = <<"a", "/">>

\* C15: the destination argument is the last argument: the remote host, a
\* colon, the remote path without its trailing separators, one separator.
DestinationArgument ==
    \A args \in CommandLines :
        LET dest == args[Len(args)]
            head == cfg.RemoteHost \o <<":">>
        IN /\ EndsInOneSeparator(dest)
           /\ Len(dest) > Len(head)
           /\ SubSeq(dest, 1, Len(head)) = head
           /\ IsStemOf(SubSeq(dest, Len(head) + 1, Len(dest) - 1), cfg.RemotePath)

\* A remote path configured with a trailing separator.
DestinationArgumentWitness ==
    /\ cfg.RemotePath = <<"/", "a", "/">>
    /\ \E args \in CommandLines : args[Len(args)] = <<"user@h", ":", "/", "a", "/">>

\* The arguments that set a bandwidth limit.
LimitArgs(args) ==
    {i \in 1..Len(args) : Len(args[i]) > 0 /\ args[i][1] = "--bwlimit="}

\* C16: for every configuration the arguments contain --delete, --partial,
\* --stats and the ssh command with the configured key path after -e, and a
\* --bwlimit=N argument exactly when the bandwidth limit N is greater than 0.
FlagsAndBandwidth ==
    \A args \in CommandLines :
        /\ \A flag \in {"--delete", "--partial", "--stats"} :
            \E i \in 1..Len(args) : args[i] = <<flag>>
        /\ \E i \in 1..(Len(args) - 1) :
            /\ args[i] = <<"-e">>
            /\ args[i + 1][1] = "ssh -i "
            /\ Contains(args[i + 1], cfg.SSHKeyPath)
        /\ (LimitArgs(args) # {}) <=> (cfg.BandwidthLimit > 0)
        /\ \A i \in LimitArgs(args) :
            args[i] = <<"--bwlimit=", ToString(cfg.BandwidthLimit)>>

\* A command line with --bwlimit=2 was written.
FlagsAndBandwidthWitness ==
    /\ cfg.BandwidthLimit = 2
    /\ \E args \in CommandLines : \E i \in 1..Len(args) : args[i] = <<"--bwlimit=", "2">>

\* A name with a forward slash, a backslash or two dots in a row.
IsPathLike(name) ==
    \/ \E i \in 1..Len(name) : name[i] \in {"/", "\\"}
    \/ \E i \in 1..(Len(name) - 1) : name[i] = "." /\ name[i + 1] = "."

\* C13: ReadLog returns an error and reads no file for every name with a
\* forward slash, a backslash or ".."; for every other name the only file it
\* reads is the one of exactly that name directly inside the log directory.
ReadLogStaysInLogDir ==
    lastRead # NoRead =>
        IF IsPathLike(lastRead.name)
        THEN lastRead.err /\ lastRead.read = NoPath
        ELSE /\ lastRead.read.up = 0
             /\ ~lastRead.err => lastRead.read = [up |-> 0, below |-> <<lastRead.name>>]

\* A name that leads to the parent directory was refused.
ReadLogStaysInLogDirWitness ==
    /\ lastRead.name = <<".", ".", "/">>
    /\ lastRead.err
    /\ lastRead.read = NoPath

\* C17: the trigger endpoint starts a run only for a POST received while no
\* run is active; a POST while a run is active is answered 409 and any other
\* method 405, and neither starts a run nor changes the executor.
TriggerOnlyIdlePost ==
    [][\A method \in Methods :
        handleTriggerBackup(method) =>
            /\ method # "POST" => (response'.code = 405 /\ UNCHANGED exVars)
            /\ (method = "POST" /\ status = StatusRunning) =>
                    (response'.code = 409 /\ UNCHANGED exVars)
            /\ (Len(runs') > Len(runs) \/ Len(units') > Len(units)) =>
                    (method = "POST" /\ status # StatusRunning)]_vars

\* A POST was answered 409 while the external process of a run was running.
TriggerOnlyIdlePostWitness ==
    /\ response = Response("POST", 409)
    /\ status = StatusRunning
    /\ \E u \in UnitIds : units[u].pc = "wait"

\* C18: a scheduler tick (or request) that finds a run active is lost: it
\* changes nothing then and starts no run later, so the runs ever started are
\* as many as the Run() calls that found the status not running.
BusyTickLost ==
    /\ [](Len(runs) = arrivals.idle /\ Len(units) = arrivals.idle)
    /\ [][arrivals'.busy # arrivals.busy => UNCHANGED exVars]_vars

\* Ticks were lost, two runs were started and both are over.
BusyTickLostWitness ==
    /\ arrivals = [idle |-> 2, busy |-> MaxBusy]
    /\ Len(units) = 2
    /\ \A u \in UnitIds : units[u].pc = "done"

\* The runs whose finishRun has prepended their record.
Recorded == {u \in UnitIds : units[u].pc \in {"save", "prune", "done"}}

\* How far an execute goroutine has got.
Progress(pc) ==
    CASE pc = "new" -> 0
      [] pc = "open" -> 1
      [] pc = "wait" -> 2
      [] pc = "finish" -> 3
      [] pc = "publish" -> 4
      [] pc = "save" -> 5
      [] pc = "prune" -> 6
      [] pc = "done" -> 7

\* C19: every accepted Run() whose external process ends or fails to start
\* gets its record in the end, and exactly once: its goroutine reaches the end
\* of finishRun, the status leaves running, the history grows by that run's
\* record only when its finishRun prepends it, and no run is executed again.
EveryRunRecordedOnce ==
    /\ \A u \in 1..MaxRuns : (u \in UnitIds) ~> (u \in Recorded)
    /\ (status = StatusRunning) ~> (status # StatusRunning)
    /\ [](Len(history) = Cardinality(Recorded) /\ Len(units) = accepted)
    /\ [][/\ history' # history =>
                \E u \in UnitIds :
                    /\ units[u].pc = "publish" /\ units'[u].pc = "save"
                    /\ history' = <<runs[u]>> \o history
            /\ \A v \in UnitIds : Progress(units'[v].pc) >= Progress(units[v].pc)]_vars

\* Both runs are in the history, the one whose process could not be started
\* on top of one that ended with exit code 23.
EveryRunRecordedOnceWitness ==
    /\ Len(units) = 2
    /\ Recorded = {1, 2}
    /\ Len(history) = 2
    /\ history[2].ExitCode = 23
    /\ history[1].Summary = "syntax or usage error"

\* The record of a run whose transcript could not be created.
IsSetupFailure(run) ==
    /\ run.Status = StatusFailed
    /\ run.ExitCode = 1
    /\ run.Summary = "failed to create log file"

\* C20: when the transcript cannot be created the run is completed all the
\* same: no external process is started, a record with status failed, exit
\* code 1 and the "failed to create log file" summary is prepended, the
\* current run is cleared, and a later Run() is accepted.
SetupFailureRecorded ==
    /\ [](\A u \in UnitIds :
            ~units[u].prune =>
                /\ units[u].pc \in {"finish", "publish", "save"}
                /\ units[u].exitCode = 1
                /\ units[u].summary = "failed to create log file"
                /\ units[u].pc \in {"publish", "save"} =>
                        (IsSetupFailure(runs[u]) /\ status = StatusFailed)
                /\ units[u].pc = "save" => (history[1] = runs[u] /\ current = 0))
    /\ [](\A c \in Callers :
            (status = StatusFailed /\ mu = Free /\ callers[c].pc = "idle"
                /\ accepted < MaxRuns) => ENABLED RunAccept(c))
    /\ [][\A u \in UnitIds \cap DOMAIN units' :
            /\ (units[u].pc = "open" /\ units'[u].pc \notin {"open", "wait"}) =>
                    (units'[u].pc = "finish" /\ ~units'[u].prune /\ logs' = logs)
            /\ (~units[u].prune /\ units'[u] # units[u]) =>
                    \/ ~units'[u].prune
                    \/ /\ units'[u] = DoneUnit
                       /\ mu' = Free
                       /\ current' = 0
                       /\ status' = StatusFailed
                       /\ IsSetupFailure(history'[1])]_vars

\* After a run whose transcript could not be created, the next run has been
\* accepted and its external process is running.
SetupFailureRecordedWitness ==
    /\ Len(units) = 2
    /\ units[1].pc = "done"
    /\ units[2].pc = "wait"
    /\ Len(history) >= 1
    /\ IsSetupFailure(history[1])
    /\ history[1].ID >= 0
    /\ current = 2

\* C21: when the history file cannot be written at the end of a run, the
\* change in memory is kept: the record stays at the head of the history, the
\* status is the tier of the run, no run is current, and Run() is accepted.
WriteFailureKeepsMemory ==
    /\ [][\A u \in UnitIds :
            (FinishSave(u) /\ historyFile' # Marshal(history)) =>
                /\ historyFile' = historyFile
                /\ history' = history
                /\ history'[1] = runs[u]
                /\ status' = runs[u].Status
                /\ status' = ClaimedTier(units[u].exitCode)
                /\ current' = 0
                /\ mu' = Free]_vars
    /\ [](\A c \in Callers :
            (writeFailed /\ mu = Free /\ status # StatusRunning
                /\ callers[c].pc = "idle" /\ accepted < MaxRuns) => ENABLED RunAccept(c))

\* The history file of the first run could not be written: there is still no
\* file, the record heads the history, and the next run has been accepted.
WriteFailureKeepsMemoryWitness ==
    /\ writeFailed
    /\ historyFile = Absent
    /\ Len(units) = 2
    /\ units[2].pc = "wait"
    /\ Len(history) = 1
    /\ history[1] = runs[1]

\* C22: whenever no run is active the aggregate status is the status of the
\* newest history record, and idle only when the history is empty; once a run
\* has completed in the process the aggregate status is never idle again.
StatusMirrorsNewest ==
    /\ (ActiveUnits = {}) =>
            status = IF history = <<>> THEN StatusIdle ELSE history[1].Status
    /\ (\E u \in UnitIds : units[u].pc \in {"publish", "save", "prune", "done"}) =>
            status # StatusIdle

\* Two runs have completed in this process, the newer one with another status
\* than the older one, and no run is active.
StatusMirrorsNewestWitness ==
    /\ ActiveUnits = {}
    /\ Len(units) = 2
    /\ Len(history) >= 2
    /\ history[1] = runs[2]
    /\ history[2] = runs[1]
    /\ history[1].Status # history[2].Status
    /\ status = history[1].Status

\* The runs of this process whose finishRun has put them in the history, in
\* the order of their completion: a run is accepted when the one before it
\* has completed.
Published == {u \in UnitIds : units[u].pc \in {"save", "prune", "remove", "done"}}

\* C28: the history is ordered by completion, newest first: of two records the
\* one nearer the head finished later (the k-th last run to complete is the
\* k-th record, and end times do not grow from the head on), and a step that
\* changes the history keeps the order of the records that stay in it.
HistoryNewestFirst ==
    /\ [](\A i \in 1..Len(history) : \A j \in 1..Len(history) :
            i < j => history[i].EndTime >= history[j].EndTime)
    /\ [](restarts = 0 =>
            \A u \in Published :
                /\ Cardinality(Published) - u + 1 \in 1..Len(history)
                /\ history[Cardinality(Published) - u + 1] = runs[u])
    /\ [][\/ history' = history
          \/ /\ history' # <<>>
             /\ Len(history') <= Len(history) + 1
             /\ Tail(history') = SubSeq(history, 1, Len(history') - 1)
          \/ /\ Len(history') <= Len(history)
             /\ history' = SubSeq(history, Len(history) - Len(history') + 1,
                                  Len(history))]_vars

\* Two runs have completed after the one of the history file, in different
\* seconds: the later one is the head, the one of the file the last.
HistoryNewestFirstWitness ==
    /\ restarts = 0
    /\ Len(history) = 3
    /\ Published = {1, 2}
    /\ history[1] = runs[2]
    /\ history[2] = runs[1]
    /\ history[1].EndTime > history[2].EndTime
    /\ history[2].EndTime > history[3].EndTime

\* C30: log retention is invoked after each run: every execute goroutine that
\* records a run in the history, the one that ends through the setup-failure
\* path included, returns by its pruneOldLogs step and by no other.
RetentionAfterEveryRun ==
    [][\A u \in UnitIds \cap DOMAIN units' :
            (units[u].pc # "done" /\ units'[u].pc = "done") =>
                /\ units[u].pc = "prune"
                /\ Prune(u)]_vars

\* C29: when the external process cannot be started, or cmd.Run() fails with
\* an error that is no exit status, the run is recorded with exit code 1 and
\* status failed.
NoExitStatusIsFailure ==
    \A u \in UnitIds :
        units[u].err = "other" =>
            /\ units[u].exitCode = 1
            /\ units[u].pc \in {"publish", "save", "prune"} =>
                    /\ runs[u].ExitCode = 1
                    /\ runs[u].Status = StatusFailed
            /\ units[u].pc = "save" => history[1] = runs[u] /\ status = StatusFailed
            /\ units[u].pc = "prune" =>
                    \E i \in 1..Len(history) : history[i] = runs[u]

\* cmd.Run() of the first run returned an error that is no exit status, and
\* the run is at the head of the history.
NoExitStatusIsFailureWitness ==
    /\ Len(units) = 1
    /\ units[1].err = "other"
    /\ units[1].pc = "prune"
    /\ history # <<>>
    /\ history[1] = runs[1]
    /\ history[1].ExitCode = 1
    /\ history[1].Status = StatusFailed
    /\ status = StatusFailed

\* C23: a completed run record is immutable: once a record is in the history
\* no step changes any of its fields while it is there (a step moves it one
\* place down or drops it from the end), the run object it was copied from
\* does not change either, and a caller that writes to what History(),
\* LastRun() or Current() returned changes nothing of the executor.
RecordsImmutable ==
    /\ [][\A i \in 1..Len(history) :
            \/ i <= Len(history') /\ Len(history') = Len(history)
                    /\ history'[i] = history[i]
            \/ i + 1 <= Len(history') /\ history'[i + 1] = history[i]
            \/ i + 1 > Len(history') /\ Len(history') = HistoryCap]_vars
    /\ [][\A u \in UnitIds :
            units[u].pc \in {"save", "prune", "done"} => runs'[u] = runs[u]]_vars
    /\ [][\A i \in 1..Len(view.runs) : ModifyReturned(i) => UNCHANGED exVars]_vars

\* The caller of Current() has written to the record of the run in progress,
\* and the caller's record differs from the executor's.
RecordsImmutableWitness ==
    /\ view.call = "Current"
    /\ current # 0
    /\ Len(view.runs) = 1
    /\ view.runs[1].Summary = "changed by caller"
    /\ view.runs[1].ID = runs[current].ID
    /\ runs[current].Summary # "changed by caller"
    /\ history # <<>>

\* C25: the mutex is never held while execute waits for the external process:
\* in every state where the process is running Status(), Current(),
\* History() and LastRun() can return, and so can a Run() call.
MutexFreeDuringWait ==
    \A u \in UnitIds :
        units[u].pc = "wait" =>
            /\ mu = Free
            /\ ENABLED Status
            /\ ENABLED Current
            /\ ENABLED History
            /\ ENABLED LastRun
            /\ \A c \in Callers :
                    callers[c].pc = "idle" => ENABLED (RunBusy(c) \/ RunAccept(c))

\* Current() has returned the run whose process is still running.
MutexFreeDuringWaitWitness ==
    /\ current # 0
    /\ units[current].pc = "wait"
    /\ view.call = "Current"
    /\ view.runs = <<runs[current]>>
    /\ view.runs[1].Status = StatusRunning

\* C26: the reads of the status and of the current run do not block on I/O in
\* flight: Status() and Current() can return while the external process
\* writes the transcript and while saveHistory writes the history file.
ReadsNeverBlockOnIO ==
    \A u \in UnitIds :
        units[u].pc \in {"wait", "save"} => (ENABLED Status /\ ENABLED Current)

\* The record of unit u is in the history.
InHistory(u) == \E i \in 1..Len(history) : history[i] = runs[u]

\* C27: completion is atomic to observers.  No reader can run between the
\* first and the last write of finishRun, and in every state a reader can
\* see, a run is either current, with the status running and no record of it
\* in the history, or not current, with its record in the history and the
\* status of a completed run unless a later run is current.
CompletionAtomic ==
    \A u \in UnitIds :
        /\ units[u].pc \in {"publish", "save"} =>
                ~(ENABLED Status \/ ENABLED Current \/ ENABLED History \/ ENABLED LastRun)
        /\ (mu = Free /\ units[u].pc \in {"new", "open", "wait", "finish"}) =>
                /\ current = u
                /\ status = StatusRunning
                /\ ~InHistory(u)
        /\ (mu = Free /\ units[u].pc \in {"prune", "done"}) =>
                /\ current # u
                /\ InHistory(u)
                /\ current = 0 => status \in {StatusSuccess, StatusWarning, StatusFailed}

\* A reader saw the history with the record of the first run at its head
\* once finishRun had returned, after a reader had seen that run as current.
CompletionAtomicWitness ==
    /\ Len(units) = 1
    /\ units[1].pc = "prune"
    /\ mu = Free
    /\ current = 0
    /\ view.call = "LastRun"
    /\ view.runs = <<runs[1]>>
    /\ status = runs[1].Status

\* C24: Scheduler.Stop() returns without waiting for a run in flight: once
\* the scheduler was told to stop, Stop() can return as soon as no callback
\* is in progress, whatever the state of the run, and a callback in progress
\* can return at once; and once the scheduler was told to stop no scheduled
\* Run() is issued any more.
StopDoesNotAwaitRun ==
    /\ [](sched = "stopping" =>
            IF callers["scheduler"].pc = "idle"
            THEN ENABLED SchedulerStopReturn
            ELSE ENABLED cronCallbackReturn)
    /\ [](sched # "running" => ~ENABLED cronCallback)
    /\ [][sched = "stopped" =>
            /\ sched' = "stopped"
            /\ callers'["scheduler"] = callers["scheduler"]]_vars

\* Stop() has returned while the status is running and the external process
\* of a run that the scheduler started has not exited.
StopDoesNotAwaitRunWitness ==
    /\ sched = "stopped"
    /\ status = StatusRunning
    /\ current # 0
    /\ units[current].pc = "wait"
    /\ arrivals.idle = 1
    /\ response = NoResponse

\* C34: the history file the executor writes never holds a record with status
\* running, so a process that is killed during a run and started again on the
\* same log directory does not start with the status running, and its first
\* Run() is accepted.
NoRunningOnDisk ==
    /\ [](historyFile.kind = "json" =>
            \A i \in 1..Len(historyFile.doc) : historyFile.doc[i].status # StatusRunning)
    /\ [][Restart => (status' # StatusRunning /\ current' = 0)]_vars
    /\ []((restarts > 0 /\ units = <<>> /\ accepted < MaxRuns) =>
            \A c \in Callers : ENABLED RunAccept(c))

\* The process was killed while the external process of its first run was
\* running (the transcript has its start banner only) and started again: the
\* new process has no run and accepts one.
NoRunningOnDiskWitness ==
    /\ restarts = 1
    /\ units = <<>>
    /\ accepted = 1
    /\ \E f \in DOMAIN logs : Len(logs[f]) = 1
    /\ status # StatusRunning
    /\ \A c \in Callers : ENABLED RunAccept(c)

\* C31: the transcript of a completed run is never modified afterwards: once
\* a run of this process is in the history no step writes to its transcript
\* file, truncates it or creates it again; retention may delete it.
TranscriptKeptAsCompleted ==
    [][\A u \in UnitIds :
            (units[u].pc \in {"save", "prune", "done"}
                /\ runs[u].LogFile \in DOMAIN logs
                /\ runs[u].LogFile \in DOMAIN logs') =>
                    logs'[runs[u].LogFile] = logs[runs[u].LogFile]]_vars

\* C33: every value Current() returns is a live record: its status is
\* running, its exit code 0, its end time and duration unset, and its id,
\* start time and transcript name are those Run() gave the run; no reader
\* sees a current run that carries the fields of completion.
CurrentIsLive ==
    /\ []((view.call = "Current" /\ view.runs # <<>>) =>
            /\ view.runs[1].Status = StatusRunning
            /\ view.runs[1].ExitCode = 0
            /\ view.runs[1].EndTime = ZeroTime
            /\ view.runs[1].Duration = ""
            /\ view.runs[1].LogFile = LogFileName(view.runs[1].ID)
            /\ \E u \in UnitIds :
                    /\ view.runs[1].ID = runs[u].ID
                    /\ view.runs[1].StartTime = runs[u].StartTime)
    /\ [][(Current /\ current # 0) =>
            view'.runs = <<NewRun(runs[current].ID, runs[current].StartTime)>>]_vars

\* Current() has returned the second run of the process while execute was
\* about to call finishRun for it.
CurrentIsLiveWitness ==
    /\ view.call = "Current"
    /\ Len(view.runs) = 1
    /\ current = 2
    /\ units[2].pc = "finish"
    /\ units[2].exitCode # 0
    /\ view.runs[1] = runs[2]

\* C32: log readers only ever read completed transcripts: no ReadLog call
\* returns the content of the transcript of a run that is still in progress.
ReadsOnlyCompleted ==
    [][\A filename \in ReadNames :
            (ReadLog(filename) /\ ~lastRead'.err) =>
                \A u \in UnitIds :
                    units[u].pc \in {"new", "open", "wait", "finish", "publish"} =>
                        FileText(runs[u].LogFile) # filename]_vars

\* C36: started on at most max_log_files transcripts and with no failing
\* removal, whenever the aggregate status is not running the log directory
\* holds at most max_log_files transcripts: a run is not seen as finished
\* before its retention step has taken effect.
FinishedMeansPruned ==
    status # StatusRunning => Cardinality(DOMAIN logs) <= cfg.MaxLogFiles

\* C36, amended: whenever every execute goroutine has returned and no Run()
\* call is in progress, the log directory holds at most max_log_files
\* transcripts.
ReturnedMeansPruned ==
    ((\A u \in UnitIds : units[u].pc = "done")
        /\ \A c \in Callers : callers[c].pc = "idle") =>
            Cardinality(DOMAIN logs) <= cfg.MaxLogFiles

\* Two runs in different seconds have returned on a directory that was at its
\* cap of 2, their retention steps interleaved: two transcripts are left.
ReturnedMeansPrunedWitness ==
    /\ cfg.MaxLogFiles = 2
    /\ Len(units) = 2
    /\ \A u \in UnitIds : units[u].pc = "done"
    /\ \A c \in Callers : callers[c].pc = "idle"
    /\ DOMAIN logs = {LogFileName(0), LogFileName(1)}
    /\ status # StatusRunning

\* The runs in progress whose transcript was created.
WritingUnits ==
    {v \in UnitIds : units[v].pc \in {"wait", "finish", "publish", "save"}
                        /\ units[v].err # "create"}

\* C37: log retention never deletes the transcript of a run in progress, nor
\* the transcript of the run that has just completed (the one whose retention
\* step it is), for every max_log_files >= 0 and every interleaving of the
\* retention step with a newly accepted run.
RetentionSparesLiveRuns ==
    [][\A u \in UnitIds :
            PruneRemove(u) =>
                \A v \in WritingUnits \cup {u} :
                    runs[v].LogFile \in DOMAIN logs => runs[v].LogFile \in DOMAIN logs']_vars

\* C37, amended: for every max_log_files >= 1 and every such interleaving,
\* log retention never deletes the transcript of a run in progress, nor the
\* transcript of the run accepted last.
RetentionSparesNewestRun ==
    [][\A u \in UnitIds :
            (PruneRemove(u) /\ cfg.MaxLogFiles >= 1) =>
                /\ runs[Len(runs)].LogFile \in DOMAIN logs =>
                        runs[Len(runs)].LogFile \in DOMAIN logs'
                /\ \A v \in WritingUnits :
                        runs[v].LogFile \in DOMAIN logs => runs[v].LogFile \in DOMAIN logs']_vars

\* With cap 1, the retention step of the first run has removed that run's
\* own transcript while the process of the second run, accepted a second
\* later, is running: the transcript of the second run is the one left.
RetentionSparesNewestRunWitness ==
    /\ cfg.MaxLogFiles = 1
    /\ Len(units) = 2
    /\ units[1].pc = "done"
    /\ units[2].pc = "wait"
    /\ runs[1].LogFile # runs[2].LogFile
    /\ DOMAIN logs = {runs[2].LogFile}

\* C38: when a run becomes visible in history, or the status leaves Running,
\* its transcript, if it was created and is in LogDir, already holds the start
\* banner with the full command line and, as its last line, the finish banner
\* with the exit code of the history record.
BannersBeforeVisible ==
    [][\A u \in UnitIds :
            ( /\ FinishStamp(u) \/ FinishPublish(u)
              /\ units[u].err # "create"
              /\ runs[u].LogFile \in DOMAIN logs )
            => LET transcript == logs[runs[u].LogFile]
               IN /\ Len(transcript) >= 2
                  /\ transcript[1] = StartBanner(buildRsyncArgs(cfg))
                  /\ transcript[Len(transcript)] = FinishBanner(runs'[u].ExitCode)
                  /\ FinishPublish(u) => history'[1].ExitCode = runs'[u].ExitCode]_vars

\* cmd.Run() returned an error that is no exit status; the run is in history
\* as failed with exit code 1 and its transcript ends with that code.
BannersBeforeVisibleWitness ==
    /\ \E u \in UnitIds :
        /\ units[u].pc = "save"
        /\ units[u].err = "other"
        /\ history # <<>>
        /\ history[1] = runs[u]
        /\ history[1].ExitCode = 1
        /\ runs[u].LogFile \in DOMAIN logs
        /\ logs[runs[u].LogFile] =
                <<StartBanner(buildRsyncArgs(cfg)), FinishBanner(1)>>

\* C40: no external process is started while the transfer settings are not
\* configured, whether the run is requested by a tick of the scheduler or by
\* the trigger endpoint.
NoProcessUnconfigured ==
    \A u \in UnitIds : units[u].pc = "wait" => TransferConfigured(cfg)

\* C39: the command line of a run is built from one consistent set of
\* transfer settings: with ApplyTransferSettings running concurrently, the
\* source, remote host, remote path and key path of a command line are all
\* the old values or all the new values.
ConsistentCommandLine ==
    \A args \in CommandLines :
        \E s \in SettingsChoices : args = buildRsyncArgs(Applied(cfg, s))

\* C35: the data of one status request is a consistent snapshot: LastRun is
\* the first element of History, both absent when the history is empty, and
\* Status is Running exactly when the run of that snapshot was still current.
DashboardIsSnapshot ==
    dash.pc = "done" =>
        /\ dash.last = IF dash.history = <<>> THEN <<>> ELSE <<dash.history[1]>>
        /\ (dash.status = StatusRunning) <=> (dash.current # <<>>)

====
